---- MODULE Spec2Model ----
(***************************************************************************)
(* Verification model of the enterprise-rag retrieval engine:              *)
(*   - HybridSearch (src/src/search/hybrid_search.py): rank fusion          *)
(*   - VectorStore / KeywordSearch (src/src/search): index state            *)
(*   - LLMGenerator.generate and the /query handler (src/src/llm, api)      *)
(*   - TextProcessor (src/src/ingestion/text_processor.py): chunking        *)
(*   - get_rag_system (src/src/api/dependencies.py): the cached instance    *)
(*   - scripts/ingest_documents.py (src/scripts): the ingestion script,     *)
(*     a process of its own that writes the two persisted artifacts         *)
(*                                                                         *)
(* Numbers.  The weighted mode of HybridSearch works on IEEE-754 doubles,   *)
(* held bit for bit (see "Python floats" below); its weights are named by   *)
(* the tenths of their literals (0.7 -> 7).  An RRF contribution w/(k+rank) *)
(* is held exactly, as w * (RRFScale \div (k+rank)) where RRFScale is the   *)
(* product of every (k+rank) that can occur; on the lists checked the       *)
(* float sums of these contributions stand in the same order.              *)
(***************************************************************************)
EXTENDS Integers, Sequences, FiniteSets, TLC

VARIABLES
    \* ---- HybridSearch.search: one call ----
    hs_pc,          \* "idle" | "done" | "raised"
    hs_in,          \* the call's inputs and the two sub-search results
    hs_exc,         \* the sub-search that raised: "none" | "vector" | "keyword"
    hs_out,         \* the list returned by HybridSearch.search
    \* ---- LLMGenerator and the /query handler ----
    gen,            \* the LLMGenerator: [provider, model_name, client]
    g_pc,           \* "idle" | "generated" | "answered"
    g_call,         \* inputs of the last generate / query_documents call
    g_ret,          \* what LLMGenerator.generate returned (or raised)
    q_resp,         \* the HTTP response of query_documents
    \* ---- VectorStore ----
    vs_index,           \* self.index: [none, vecs]
    vs_documents,       \* self.documents
    vs_doc_embeddings,  \* self.doc_embeddings: [none, vecs]
    \* ---- KeywordSearch ----
    ks_bm25,            \* self.bm25: [none, corpus]
    ks_documents,       \* self.documents
    ks_tokenized_corpus,\* self.tokenized_corpus
    \* ---- the two persisted artifacts ----
    disk,               \* [index: [exists, vecs], meta: [exists, readable,
                        \*   documents, embeddings]]
    saved,              \* history: [disk, load], each [ok, index,
                        \* documents].  disk: the VectorStore state of the
                        \* one save call that wrote both files now on
                        \* disk; load: the one whose two files the running
                        \* load has read
    script,             \* scripts/ingest_documents.py, a process of its
                        \* own: [pc, chunks], pc "idle" | "save_meta"
    \* ---- the worker that changes the indexes ----
    w_op,               \* "boot" | "ingest" | "clear" | "shutdown" | "none"
    w_pc,               \* the statement it is about to run
    w_chunks,           \* the documents argument of the running build_index
    w_emb,              \* build_index's local embeddings
    w_status,           \* how the last completed operation ended
    w_before,           \* history: the index state when the running
                        \* operation started; kept after one that failed
    w_served,           \* the chunks of the ingest request that was just
                        \* answered 200, until the next operation starts
    n_ops,              \* operations started so far
    \* ---- a worker running VectorStore.search ----
    r_pc,               \* "idle" | "checked" | "searched" | "guarded" |
                        \* "done"
    r_call,             \* [query, top_k, embed]: embed is what the
                        \* embedding provider does if this call reaches it
    r_index,            \* the index the call read last (line 53 or 62)
    r_j,                \* the hit its result loop stands at
    r_docs,             \* the documents list its result loop read last
    r_reads,            \* history: every documents list the loop read
    r_ret,              \* [raised, results, early]; results grows in the
                        \* loop
    \* ---- a worker running KeywordSearch.search ----
    k_pc,               \* "idle" | "done"
    k_call,             \* [query, top_k]
    k_ret,              \* [raised, results]
    \* ---- TextProcessor.process_documents: one call ----
    tp_pc,              \* "idle" | "done"
    tp_in,              \* the documents argument
    tp_out,             \* the chunks returned
    \* ---- get_rag_system and the threads calling it ----
    c_pc,               \* per caller: "idle" | "missed" | "built" | "returned"
    c_ret,              \* per caller: the instance it built or was given
    cache,              \* the lru_cache entry of get_rag_system (0: none)
    n_built,            \* RAGSystem instances constructed so far
    \* ---- history ----
    snapshots           \* every (index, documents) the VectorStore held
                        \* while no index operation was running

fusionVars == <<hs_pc, hs_in, hs_exc, hs_out>>
queryVars == <<gen, g_pc, g_call, g_ret, q_resp>>
storeVars == <<vs_index, vs_documents, vs_doc_embeddings,
               ks_bm25, ks_documents, ks_tokenized_corpus>>
writerVars == <<w_op, w_pc, w_chunks, w_emb, w_status, w_served, w_before,
                n_ops>>
readerVars == <<r_pc, r_call, r_index, r_j, r_docs, r_reads, r_ret>>
kwVars == <<k_pc, k_call, k_ret>>
indexVars == <<storeVars, disk, saved, script, writerVars, readerVars, kwVars,
               snapshots>>
chunkVars == <<tp_pc, tp_in, tp_out>>
cacheVars == <<c_pc, c_ret, cache, n_built>>
vars == <<fusionVars, queryVars, indexVars, chunkVars, cacheVars>>

-----------------------------------------------------------------------------
(* Bounds *)
MaxList == 3        \* longest candidate list a sub-search returns
MaxTopK == 2        \* largest top_k asked of HybridSearch.search
MaxContext == 2     \* longest context_documents list given to generate
MaxChunks == 3      \* most chunks one ingest request produces
MaxDocs == 2        \* documents in one process_documents call
MaxPages == 2       \* pages of one loaded file
MaxCallers == 3     \* threads calling get_rag_system
MaxTieChunks == 4   \* most chunks of the index keyword searches run on
MaxOps == 2         \* index operations (ingest, clear, shutdown, a run of
                    \* the ingestion script) in one run

(* Program constants *)
K_RRF == 60                 \* _reciprocal_rank_fusion(..., k: int = 60)
VECTOR_WEIGHT == 7          \* settings.VECTOR_WEIGHT = 0.7, as the literal's
                            \* tenths; Double gives the float it denotes
KEYWORD_WEIGHT == 3         \* settings.KEYWORD_WEIGHT = 0.3, likewise
FALLBACK_PREVIEW == 500     \* top_doc.page_content[:500]
SOURCE_PREVIEW == 200       \* doc.page_content[:200]
VECTOR_TOP_K == 10           \* settings.VECTOR_TOP_K
CHUNK_SIZE == 800           \* settings.CHUNK_SIZE
CHUNK_OVERLAP == 200        \* settings.CHUNK_OVERLAP
KEYWORD_TOP_K == 10         \* settings.KEYWORD_TOP_K
FLT_MAX == 1000000          \* the distance FAISS reports with label -1
                            \* (3.4028235e38), above every real distance
HTTP_OK == 200
HTTP_NOT_FOUND == 404       \* HTTPException(status_code=404, ...)
HTTP_ERROR == 500           \* HTTPException(status_code=500, ...)

-----------------------------------------------------------------------------
(* Documents.  A chunk is a langchain Document: here its position in the   *)
(* corpus (id) and its page_content (text).  Chunks 1 and 2 are two chunks *)
(* of the corpus that carry the same text.                                 *)
Chunks == { [id |-> 1, text |-> "a"], [id |-> 2, text |-> "a"],
            [id |-> 3, text |-> "b"] }

Texts == { c.text : c \in Chunks }

\* Raw scores a sub-search attaches to a result (similarity or BM25 score),
\* in arbitrary positive units.
RawScores == {1, 2}

\* hash(doc.page_content): CPython's str hash; equal texts hash equally and,
\* on this domain, different texts differently.
Hash(text) == CASE text = "a" -> 5381
                [] text = "b" -> 33
                [] OTHER -> 0

-----------------------------------------------------------------------------
(* Sequence helpers *)
Min2(a, b) == IF a <= b THEN a ELSE b

Range(s) == { s[i] : i \in 1..Len(s) }

RECURSIVE Product(_, _)
Product(lo, hi) == IF lo > hi THEN 1 ELSE lo * Product(lo + 1, hi)

-----------------------------------------------------------------------------
(* Python floats.  The weighted mode multiplies and adds IEEE-754 doubles,  *)
(* and every operation rounds its exact result to 53 significant bits, so   *)
(* 0.7 + 2 * 0.3 and (0.7 + 0.3) + 0.3 are different numbers.  A double x   *)
(* (zero, or from 0.25 up to 64) is held exactly, as the integer x * 2^54   *)
(* written in three limbs <<h, m, l>> of 20 bits: h * 2^40 + m * 2^20 + l.  *)

\* the double a decimal literal of so many tenths denotes
Double(tenths) ==
    CASE tenths = 0  -> <<0, 0, 0>>
      [] tenths = 3  -> <<4915, 209715, 209715>>    \* 0x1.3333333333333p-2
      [] tenths = 7  -> <<11468, 838860, 838860>>   \* 0x1.6666666666666p-1
      [] tenths = 10 -> <<16384, 0, 0>>             \* 0x1.0000000000000p+0

\* the rounding every float operation ends with: the exact limbs (each may
\* exceed 20 bits) are carried, and the bits below the 53 highest are
\* dropped, to nearest, ties to even
RoundToDouble(h, m, l) ==
    LET B  == 2^20
        Carry(a, b, c) ==
            <<a + (b + c \div B) \div B, (b + c \div B) % B, c % B>>
        RECURSIVE BitLen(_)
        BitLen(n) == IF n = 0 THEN 0 ELSE 1 + BitLen(n \div 2)
        x  == Carry(h, m, l)
        d  == BitLen(x[1] \div 2^13)    \* bits above the 53rd
    IN  IF d = 0 THEN x
        ELSE LET q   == 2^d
                 rem == x[3] % q
                 up  == \/ 2 * rem > q
                        \/ 2 * rem = q /\ (x[3] \div q) % 2 = 1
             IN  Carry(x[1], x[2], x[3] - rem + (IF up THEN q ELSE 0))

\* a + b
FloatAdd(a, b) == RoundToDouble(a[1] + b[1], a[2] + b[2], a[3] + b[3])

\* score * weight, score a small whole number
FloatMul(score, w) == RoundToDouble(score * w[1], score * w[2], score * w[3])

\* a >= b
FloatGE(a, b) ==
    \/ a[1] > b[1]
    \/ a[1] = b[1] /\ a[2] > b[2]
    \/ a[1] = b[1] /\ a[2] = b[2] /\ a[3] >= b[3]

\* Common denominator of every k + rank, rank in 1..MaxList.
RRFScale == Product(K_RRF + 1, K_RRF + MaxList)

\* scores never increase along a sub-search's result list (best first)
BestFirst(s) == \A i \in 1..(Len(s) - 1) : s[i].score >= s[i+1].score

\* no chunk twice
DistinctChunks(s) == \A i, j \in 1..Len(s) : s[i].doc = s[j].doc => i = j

\* What VectorStore.search can return: (Document, score) pairs, best first.
\* A chunk may occur more than once: FAISS pads its answer with label -1
\* when top_k exceeds ntotal, and documents[-1] is appended for each.
VectorResultLists ==
    UNION { { s \in [1..n -> [doc : Chunks, score : RawScores]] : BestFirst(s) }
            : n \in 0..MaxList }

\* What KeywordSearch.search can return: argsort yields each index once, so
\* the chunks are distinct; scores are positive and best first.
KeywordResultLists ==
    { s \in VectorResultLists : DistinctChunks(s) }

-----------------------------------------------------------------------------
(* Python dict keyed by doc_id, in insertion order: a sequence of entries   *)
(* [key, score, doc].  In _reciprocal_rank_fusion the two dicts doc_scores  *)
(* and doc_objects always hold the same keys, so one entry carries both.    *)

\* doc_id = hash(doc.page_content)
DocIdMutPerChunk(doc) == doc.id
DocId(doc) == Hash(doc.text)

\* position of key in the dict, 0 when absent
DictIndex(d, key) ==
    IF \E i \in 1..Len(d) : d[i].key = key
    THEN CHOOSE i \in 1..Len(d) : d[i].key = key
    ELSE 0

\* rrf_score = weight / (k + rank), on the scale 1 / (10 * RRFScale)
RRFScore(weight, rank) == weight * (RRFScale \div (K_RRF + rank))

\* doc_scores[doc_id] = doc_scores.get(doc_id, 0) + rrf_score
\* doc_objects[doc_id] = doc
RRFPut(d, doc, rrf_score) ==
    LET key == DocId(doc)
        i   == DictIndex(d, key)
    IN  IF i = 0
        THEN Append(d, [key |-> key, score |-> rrf_score, doc |-> doc])
        ELSE [d EXCEPT ![i] = [key |-> key, score |-> @.score + rrf_score,
                               doc |-> doc]]

\* for rank, (doc, score) in enumerate(results, start=1): ...
RECURSIVE RRFLoop(_, _, _, _)
RRFLoop(d, results, weight, rank) ==
    IF rank > Len(results) THEN d
    ELSE RRFLoop(RRFPut(d, results[rank].doc, RRFScore(weight, rank)),
                 results, weight, rank + 1)

\* sorted(..., key=lambda x: x[1], reverse=True): stable, highest score
\* first, equal scores keep their dict order.
RECURSIVE InsertDesc(_, _)
InsertDesc(s, e) ==
    IF s = <<>> THEN <<e>>
    ELSE IF Head(s).score >= e.score
         THEN <<Head(s)>> \o InsertDesc(Tail(s), e)
         ELSE <<e>> \o s

RECURSIVE SortFrom(_, _, _)
SortFrom(acc, s, i) ==
    IF i > Len(s) THEN acc ELSE SortFrom(InsertDesc(acc, s[i]), s, i + 1)

SortDescMutUnsorted(d) == d
SortDesc(d) == SortFrom(<<>>, d, 1)

\* the (Document, score) pairs of a sorted dict
Pairs(d) == [i \in 1..Len(d) |-> [doc |-> d[i].doc, score |-> d[i].score]]

\* HybridSearch._reciprocal_rank_fusion
ReciprocalRankFusion(vector_results, keyword_results, vw, kw) ==
    LET d1 == RRFLoop(<<>>, vector_results, vw, 1)
        d2 == RRFLoop(d1, keyword_results, kw, 1)
    IN  Pairs(SortDesc(d2))

\* sorted(..., key=lambda x: x[1], reverse=True) at lines 128-132: the same
\* stable sort, on float scores
SortDescFloat(d) ==
    LET RECURSIVE Insert(_, _)
        Insert(s, e) ==
            IF s = <<>> THEN <<e>>
            ELSE IF FloatGE(Head(s).score, e.score)
                 THEN <<Head(s)>> \o Insert(Tail(s), e)
                 ELSE <<e>> \o s
        RECURSIVE From(_, _)
        From(acc, i) ==
            IF i > Len(d) THEN acc ELSE From(Insert(acc, d[i]), i + 1)
    IN  From(<<>>, 1)

\* weighted mode, vector loop: doc_scores[doc_id] = (doc, score * vector_weight)
WeightedPutVector(d, doc, score, vw) ==
    LET key == DocId(doc)
        i   == DictIndex(d, key)
        e   == [key |-> key, score |-> FloatMul(score, Double(vw)),
                doc |-> doc]
    IN  IF i = 0 THEN Append(d, e) ELSE [d EXCEPT ![i] = e]

\* weighted mode, keyword loop: add to an existing entry (keeping its
\* document), else insert (doc, score * keyword_weight)
WeightedPutKeyword(d, doc, score, kw) ==
    LET key == DocId(doc)
        i   == DictIndex(d, key)
    IN  IF i = 0
        THEN Append(d, [key |-> key, score |-> FloatMul(score, Double(kw)),
                        doc |-> doc])
        ELSE [d EXCEPT ![i].score = FloatAdd(@, FloatMul(score, Double(kw)))]

RECURSIVE WeightedVectorLoop(_, _, _, _)
WeightedVectorLoop(d, results, vw, i) ==
    IF i > Len(results) THEN d
    ELSE WeightedVectorLoop(
             WeightedPutVector(d, results[i].doc, results[i].score, vw),
             results, vw, i + 1)

RECURSIVE WeightedKeywordLoop(_, _, _, _)
WeightedKeywordLoop(d, results, kw, i) ==
    IF i > Len(results) THEN d
    ELSE WeightedKeywordLoop(
             WeightedPutKeyword(d, results[i].doc, results[i].score, kw),
             results, kw, i + 1)

\* the else branch of HybridSearch.search ("simple weighted combination")
WeightedCombination(vector_results, keyword_results, vw, kw) ==
    LET d1 == WeightedVectorLoop(<<>>, vector_results, vw, 1)
        d2 == WeightedKeywordLoop(d1, keyword_results, kw, 1)
    IN  Pairs(SortDescFloat(d2))

\* combined_results[:top_k]  (top_k >= 1)
Take(s, n) == SubSeq(s, 1, Min2(n, Len(s)))

\* what HybridSearch.search returns for the two sub-search results
HybridResult(in) ==
    LET combined ==
            IF in.use_rrf
            THEN ReciprocalRankFusion(in.vector_results, in.keyword_results,
                                      in.vector_weight, in.keyword_weight)
            ELSE WeightedCombination(in.vector_results, in.keyword_results,
                                     in.vector_weight, in.keyword_weight)
    IN  Take(combined, in.top_k)

\* (vector_weight, keyword_weight) a HybridSearch is constructed with: the
\* configured defaults, and a vector-only configuration.
WeightConfigs == { <<VECTOR_WEIGHT, KEYWORD_WEIGHT>>,
                   <<VECTOR_WEIGHT + KEYWORD_WEIGHT, 0>> }

NoCall == [vector_results |-> <<>>, keyword_results |-> <<>>, top_k |-> 1,
           use_rrf |-> TRUE, vector_weight |-> VECTOR_WEIGHT,
           keyword_weight |-> KEYWORD_WEIGHT]

-----------------------------------------------------------------------------
(* HybridSearch.search: one call from the two sub-search results to the    *)
(* returned list.                                                          *)
IdleFusion ==
    /\ hs_pc = "idle"
    /\ hs_in = NoCall
    /\ hs_exc = "none"
    /\ hs_out = <<>>

\* HybridSearch.search with a sub-search failure taken for zero results
SearchOutcomeMutSwallow(exc, in) ==
    [raised |-> FALSE, results |-> HybridResult(in)]

\* HybridSearch.search, lines 92-135: the two sub-search calls stand outside
\* any try, so an exception of either leaves search at once; else the two
\* lists are fused.  exc names the sub-search that raised.
SearchOutcome(exc, in) ==
    IF exc # "none"
    THEN [raised |-> TRUE, results |-> <<>>]
    ELSE [raised |-> FALSE, results |-> HybridResult(in)]

\* One call.  When vector_store.search raises, keyword_search.search is not
\* called; when keyword_search.search raises, the vector list was returned.
HybridSearchSearch ==
    /\ hs_pc = "idle"
    /\ \E v \in VectorResultLists, k \in KeywordResultLists,
          top_k \in 1..MaxTopK, use_rrf \in BOOLEAN, w \in WeightConfigs,
          exc \in {"none", "vector", "keyword"} :
          /\ exc = "vector" => v = <<>>
          /\ exc # "none" => k = <<>>
          /\ LET in == [vector_results |-> v, keyword_results |-> k,
                        top_k |-> top_k, use_rrf |-> use_rrf,
                        vector_weight |-> w[1], keyword_weight |-> w[2]]
                 out == SearchOutcome(exc, in)
             IN  /\ hs_in' = in
                 /\ hs_exc' = exc
                 /\ hs_out' = out.results
                 /\ hs_pc' = IF out.raised THEN "raised" ELSE "done"
    /\ UNCHANGED <<queryVars, indexVars, chunkVars, cacheVars>>

HybridSearchReturn ==
    /\ hs_pc \in {"done", "raised"}
    /\ hs_pc' = "idle"
    /\ hs_in' = NoCall
    /\ hs_exc' = "none"
    /\ hs_out' = <<>>
    /\ UNCHANGED <<queryVars, indexVars, chunkVars, cacheVars>>

NextFusion == HybridSearchSearch \/ HybridSearchReturn

-----------------------------------------------------------------------------
(* LLMGenerator (src/src/llm/generator.py) and PromptTemplates              *)

\* Context chunks handed to generate: a source identifier (metadata
\* "source", absent for some) and the page_content as a character sequence.
\* One text is longer than the fallback preview, one longer than the
\* sources preview, one shorter than both.
ContextDocs ==
    { [source |-> "s1.txt",
       text |-> [i \in 1..(FALLBACK_PREVIEW + 1) |-> i % 7]],
      [source |-> "s2.txt",
       text |-> [i \in 1..(SOURCE_PREVIEW + 1) |-> i % 5]],
      [source |-> "", text |-> <<6>>] }

ContextLists == UNION { [1..n -> ContextDocs] : n \in 0..MaxContext }

\* text[:n]
Prefix(text, n) == SubSeq(text, 1, Min2(n, Len(text)))

\* doc.metadata.get("source", default)
SourceOr(doc, default) == IF doc.source = "" THEN default ELSE doc.source

\* PromptTemplates.format_context
FormatContext(documents) ==
    [i \in 1..Len(documents) |->
        [n |-> i, source |-> SourceOr(documents[i], "Unknown"),
         content |-> documents[i].text]]

\* rag_prompt_with_citations / rag_prompt
Prompt(query, context, use_citations) ==
    [template |-> IF use_citations THEN "rag_prompt_with_citations"
                  ELSE "rag_prompt",
     query |-> query, context |-> context]

\* LLMGenerator.__init__: the client exists only for provider groq or
\* openai, with the API key set and the client library initialised.
NewGenerator(provider, key_set, init_ok) ==
    [provider |-> provider, model_name |-> "model",
     client |-> (provider \in {"groq", "openai"} /\ key_set /\ init_ok)]

\* _generate_fallback without the [:500] cut
GenerateFallbackMutWholeText(query, documents) ==
    IF documents = <<>>
    THEN [kind |-> "no_information", source |-> "", excerpt |-> <<>>]
    ELSE [kind |-> "excerpt",
          source |-> SourceOr(documents[1], "Unknown source"),
          excerpt |-> documents[1].text]

\* LLMGenerator._generate_fallback.  kind "no_information" is the fixed
\* message of line 148; kind "excerpt" is the template of lines 154-158:
\* the source, the excerpt followed by "...", and the note.
GenerateFallback(query, documents) ==
    IF documents = <<>>
    THEN [kind |-> "no_information", source |-> "", excerpt |-> <<>>]
    ELSE [kind |-> "excerpt",
          source |-> SourceOr(documents[1], "Unknown source"),
          excerpt |-> Prefix(documents[1].text, FALLBACK_PREVIEW)]

\* what a chat completion call can do: yield a text, yield a message whose
\* content is None (the field is optional in both client libraries), or
\* raise (network, auth, malformed response)
ProviderOutcomes == {"ok", "none", "raise"}

\* _generate_groq / _generate_openai return response.choices[0].message
\* .content as it is: the provider's text, or None (kind "null").
ProviderCall(provider, prompt, outcome) ==
    CASE outcome = "ok" ->
           [raised |-> FALSE,
            text |-> [kind |-> "llm", source |-> provider, excerpt |-> <<>>]]
      [] outcome = "none" ->
           [raised |-> FALSE,
            text |-> [kind |-> "null", source |-> "", excerpt |-> <<>>]]
      [] OTHER ->
           [raised |-> TRUE,
            text |-> [kind |-> "none", source |-> "", excerpt |-> <<>>]]

\* generate, lines 73-85, with the except clause left out
LLMResponseMutNoCatch(g, prompt, query, documents, outcome) ==
    IF g.client /\ g.provider \in {"groq", "openai"}
    THEN ProviderCall(g.provider, prompt, outcome)
    ELSE [raised |-> FALSE, text |-> GenerateFallback(query, documents)]

\* generate, lines 73-85: the provider dispatch inside try/except
LLMResponse(g, prompt, query, documents, outcome) ==
    IF g.client
    THEN LET r == IF g.provider \in {"groq", "openai"}
                  THEN ProviderCall(g.provider, prompt, outcome)
                  ELSE [raised |-> FALSE,
                        text |-> GenerateFallback(query, documents)]
         IN  IF r.raised
             THEN [raised |-> FALSE,
                   text |-> GenerateFallback(query, documents)]
             ELSE r
    ELSE [raised |-> FALSE, text |-> GenerateFallback(query, documents)]

\* a sources list that stops after the first chunk
SourcesMutFirstOnly(documents) ==
    [i \in 1..Min2(1, Len(documents)) |->
        [content |-> Prefix(documents[i].text, SOURCE_PREVIEW),
         metadata |-> documents[i].source]]

\* the sources list of generate, lines 88-94: content is
\* page_content[:200] followed by "...", metadata is the chunk's metadata
Sources(documents) ==
    [i \in 1..Len(documents) |->
        [content |-> Prefix(documents[i].text, SOURCE_PREVIEW),
         metadata |-> documents[i].source]]

\* LLMGenerator.generate
Generate(g, query, documents, use_citations, outcome) ==
    LET context  == FormatContext(documents)
        prompt   == Prompt(query, context, use_citations)
        response == LLMResponse(g, prompt, query, documents, outcome)
    IN  IF response.raised
        THEN [raised |-> TRUE, answer |-> response.text, sources |-> <<>>,
              model_used |-> "", prompt |-> prompt]
        ELSE [raised |-> FALSE, answer |-> response.text,
              sources |-> Sources(documents),
              model_used |-> IF g.client
                             THEN <<g.provider, g.model_name>>
                             ELSE <<"fallback">>,
              prompt |-> prompt]

NoReturn == [raised |-> FALSE,
             answer |-> [kind |-> "none", source |-> "", excerpt |-> <<>>],
             sources |-> <<>>, model_used |-> <<>>,
             prompt |-> Prompt("", <<>>, TRUE)]

-----------------------------------------------------------------------------
(* query_documents (src/src/api/routes.py)                                 *)

\* QueryResponse(...), lines 74-82: pydantic validates the fields; answer
\* must be a str, so None raises ValidationError.  The other fields always
\* validate: content and model_used are strings, metadata is a dict.
QueryResponseValid(r) == r.answer.kind # "null"

\* The try body, lines 44-82: what it raises, or the response it builds.
\* search is what hybrid_search.search did: raised, or returned results.
QueryBody(g, query, search, use_citations, outcome) ==
    IF search.raised
    THEN [exc |-> "Exception", status_code |-> 0, ret |-> NoReturn]
    ELSE IF search.results = <<>>
    THEN [exc |-> "HTTPException", status_code |-> HTTP_NOT_FOUND,
          ret |-> NoReturn]
    ELSE LET r == Generate(g, query, search.results, use_citations, outcome)
         IN  IF r.raised \/ ~QueryResponseValid(r)
             THEN [exc |-> "Exception", status_code |-> 0, ret |-> r]
             ELSE [exc |-> "none", status_code |-> 0, ret |-> r]

\* "except Exception as e" (line 84): fastapi.HTTPException derives from
\* Exception, so the clause catches it as well.
Caught(exc) == exc \in {"Exception", "HTTPException"}

\* query_documents: the status the client receives
QueryDocumentsResponse(g, query, search, use_citations, outcome) ==
    LET b == QueryBody(g, query, search, use_citations, outcome)
    IN  IF b.exc = "none"
        THEN [status |-> HTTP_OK, ret |-> b.ret]
        ELSE IF Caught(b.exc)
        THEN [status |-> HTTP_ERROR, ret |-> b.ret]
        ELSE [status |-> b.status_code, ret |-> b.ret]

SearchOutcomes ==
    { [raised |-> TRUE, results |-> <<>>] }
    \cup { [raised |-> FALSE, results |-> l] : l \in ContextLists }

NoQueryCall == [op |-> "none", query |-> "", documents |-> <<>>,
                search |-> [raised |-> FALSE, results |-> <<>>],
                use_citations |-> TRUE, outcome |-> "ok"]
NoResponse == [status |-> 0, ret |-> NoReturn]

IdleQuery ==
    /\ gen = NewGenerator("groq", FALSE, FALSE)
    /\ g_pc = "idle"
    /\ g_call = NoQueryCall
    /\ g_ret = NoReturn
    /\ q_resp = NoResponse

\* a direct call of LLMGenerator.generate
GenerateCall ==
    /\ g_pc = "idle"
    /\ \E documents \in ContextLists, use_citations \in BOOLEAN,
          outcome \in ProviderOutcomes :
          /\ g_call' = [op |-> "generate", query |-> "q",
                        documents |-> documents,
                        search |-> [raised |-> FALSE, results |-> <<>>],
                        use_citations |-> use_citations,
                        outcome |-> outcome]
          /\ g_ret' = Generate(gen, "q", documents, use_citations, outcome)
    /\ g_pc' = "generated"
    /\ UNCHANGED <<gen, q_resp, fusionVars, indexVars, chunkVars, cacheVars>>

\* one POST /query
QueryDocuments ==
    /\ g_pc = "idle"
    /\ \E search \in SearchOutcomes, use_citations \in BOOLEAN,
          outcome \in ProviderOutcomes :
          LET resp == QueryDocumentsResponse(gen, "q", search,
                                             use_citations, outcome)
          IN  /\ g_call' = [op |-> "query", query |-> "q",
                            documents |-> search.results,
                            search |-> search,
                            use_citations |-> use_citations,
                            outcome |-> outcome]
              /\ g_ret' = resp.ret
              /\ q_resp' = resp
    /\ g_pc' = "answered"
    /\ UNCHANGED <<gen, fusionVars, indexVars, chunkVars, cacheVars>>

QueryReturn ==
    /\ g_pc \in {"generated", "answered"}
    /\ g_pc' = "idle"
    /\ g_call' = NoQueryCall
    /\ g_ret' = NoReturn
    /\ q_resp' = NoResponse
    /\ UNCHANGED <<gen, fusionVars, indexVars, chunkVars, cacheVars>>

NextQuery == GenerateCall \/ QueryDocuments \/ QueryReturn

-----------------------------------------------------------------------------
(* Chunk text, tokenisation and embedding                                  *)

\* page_content is a sequence of characters
IndexChunks == { [id |-> 1, text |-> <<"A", " ", "b", ".">>],
                 [id |-> 2, text |-> <<"a">>],
                 [id |-> 3, text |-> <<"c">>] }

QueryTexts == { <<"a">>, <<"b", "?">> }

\* the chunk lists process_documents can hand to an ingest request: every
\* chunk it makes is a new object, so none occurs twice; the chunks are
\* numbered in the order in which it emits them
ChunkLists ==
    { s \in UNION { [1..n -> IndexChunks] : n \in 0..MaxChunks } :
        \A i, j \in 1..Len(s) : i < j => s[i].id < s[j].id }

\* chunks of which some tokenize alike: "a" and "A", "A b." and "b"
TieChunks == IndexChunks \cup { [id |-> 4, text |-> <<"A">>],
                                [id |-> 5, text |-> <<"b">>] }

\* the non-empty chunk lists of an ingest request over them
TieChunkLists ==
    { s \in UNION { [1..n -> TieChunks] : n \in 1..MaxTieChunks } :
        \A i, j \in 1..Len(s) : i < j => s[i].id < s[j].id }

\* str.lower()
Lower(c) == IF c = "A" THEN "a" ELSE IF c = "B" THEN "b" ELSE c

LowerText(text) == [i \in 1..Len(text) |-> Lower(text[i])]

Whitespace == {" "}

\* token.strip('.,!?;:()[]{}"\'-')
Punctuation == {".", ",", "!", "?", ";", ":", "(", ")", "[", "]", "{", "}",
                "\"", "'", "-"}

\* str.split(): the maximal runs of non-whitespace characters
RECURSIVE SplitFrom(_, _, _)
SplitFrom(text, i, word) ==
    IF i > Len(text)
    THEN IF word = <<>> THEN <<>> ELSE <<word>>
    ELSE IF text[i] \in Whitespace
    THEN (IF word = <<>> THEN <<>> ELSE <<word>>) \o SplitFrom(text, i + 1, <<>>)
    ELSE SplitFrom(text, i + 1, Append(word, text[i]))

Split(text) == SplitFrom(text, 1, <<>>)

RECURSIVE StripLeft(_)
StripLeft(token) ==
    IF token # <<>> /\ Head(token) \in Punctuation
    THEN StripLeft(Tail(token)) ELSE token

RECURSIVE StripRight(_)
StripRight(token) ==
    IF token # <<>> /\ token[Len(token)] \in Punctuation
    THEN StripRight(SubSeq(token, 1, Len(token) - 1)) ELSE token

Strip(token) == StripRight(StripLeft(token))

NonEmpty(token) == token # <<>>

\* KeywordSearch._tokenize
Tokenize(text) ==
    LET words == Split(LowerText(text))
    IN  SelectSeq([i \in 1..Len(words) |-> Strip(words[i])], NonEmpty)

\* the tokenized corpus of a chunk list
TokenizeAll(documents) ==
    [i \in 1..Len(documents) |-> Tokenize(documents[i].text)]

RECURSIVE TotalTokens(_)
TotalTokens(corpus) ==
    IF corpus = <<>> THEN 0 ELSE Len(Head(corpus)) + TotalTokens(Tail(corpus))

\* The embedding provider (SentenceTransformer.encode) is external: here a
\* fixed function of the text into one dimension, equal texts giving equal
\* vectors.
CharCode(c) == CASE c = "a" -> 1 [] c = "A" -> 2 [] c = "b" -> 4
                 [] c = "B" -> 5 [] c = "c" -> 9 [] OTHER -> 0

RECURSIVE EmbedText(_)
EmbedText(text) ==
    IF text = <<>> THEN 0 ELSE CharCode(Head(text)) + EmbedText(Tail(text))

\* Embedder.embed_texts: one vector per text, in order
EmbedTexts(documents) ==
    [i \in 1..Len(documents) |-> EmbedText(documents[i].text)]

\* what one call of model.encode can do: return the vectors, or raise
\* (model or device failure)
EmbedOutcomes == {"ok", "raise"}

-----------------------------------------------------------------------------
(* VectorStore.search (src/src/search/vector_store.py)                     *)

NoArray == [none |-> TRUE, vecs |-> <<>>]
Array(vecs) == [none |-> FALSE, vecs |-> vecs]

\* squared L2 distance, as IndexFlatL2 reports it
L2(u, v) == (u - v) * (u - v)

\* positions of vecs, nearest to q first, lower position first among equals
RECURSIVE NearestFirst(_, _, _)
NearestFirst(vecs, q, left) ==
    IF left = {} THEN <<>>
    ELSE LET best == CHOOSE i \in left :
                        \A j \in left :
                            \/ L2(vecs[i], q) < L2(vecs[j], q)
                            \/ L2(vecs[i], q) = L2(vecs[j], q) /\ i <= j
         IN  <<best>> \o NearestFirst(vecs, q, left \ {best})

\* index.search(query_embedding, top_k): top_k (distance, label) pairs,
\* labels 0-based; with fewer than top_k vectors the rest carry label -1
FaissSearch(vecs, q, top_k) ==
    LET order == NearestFirst(vecs, q, 1..Len(vecs))
    IN  [j \in 1..top_k |->
            IF j <= Len(order)
            THEN [label |-> order[j] - 1, dist |-> L2(vecs[order[j]], q)]
            ELSE [label |-> -1, dist |-> FLT_MAX]]

\* the guard of the result loop: "if idx < len(self.documents)"
KeepHit(label, n) == label < n

\* lines 69-70: (self.documents[idx], 1 / (1 + dist)).  A negative idx
\* counts from the end of the list; an idx outside the list raises
\* IndexError.
TakeHit(documents, hit) ==
    LET n   == Len(documents)
        pos == IF hit.label >= 0 THEN hit.label + 1 ELSE n + hit.label + 1
    IN  IF pos < 1 \/ pos > n
        THEN [raised |-> TRUE,
              entry |-> [doc |-> [id |-> 0, text |-> <<>>],
                         similarity |-> [num |-> 1, den |-> 1]]]
        ELSE [raised |-> FALSE,
              entry |-> [doc |-> documents[pos],
                         similarity |-> [num |-> 1, den |-> 1 + hit.dist]]]

\* lines 65-72: the result loop over zip(distances[0], indices[0]), run
\* while self.documents stays the same list
RECURSIVE CollectFrom(_, _, _, _)
CollectFrom(documents, hits, j, acc) ==
    IF j > Len(hits) THEN [raised |-> FALSE, results |-> acc]
    ELSE IF ~KeepHit(hits[j].label, Len(documents))
    THEN CollectFrom(documents, hits, j + 1, acc)
    ELSE IF TakeHit(documents, hits[j]).raised
    THEN [raised |-> TRUE, results |-> <<>>]
    ELSE CollectFrom(documents, hits, j + 1,
                     Append(acc, TakeHit(documents, hits[j]).entry))

Collect(documents, hits) == CollectFrom(documents, hits, 1, <<>>)

\* VectorStore.search with the check of lines 53-55 left out: None has no
\* search method, and an empty index is searched like any other
VectorSearchMutNoCheck(index, documents, query, top_k, embed) ==
    IF index.none \/ embed = "raise"
    THEN [raised |-> TRUE, results |-> <<>>, early |-> FALSE]
    ELSE LET c == Collect(documents,
                          FaissSearch(index.vecs, EmbedText(query), top_k))
         IN  [raised |-> c.raised, results |-> c.results, early |-> FALSE]

\* VectorStore.search run on one index and one documents list.  early says
\* that it returned at line 55, before embed_query (line 58) was called.
\* embed is what the provider does when line 58 calls it: nothing catches
\* an exception of model.encode (embedder.py line 29) on its way out of
\* search.
VectorSearch(index, documents, query, top_k, embed) ==
    IF index.none \/ Len(index.vecs) = 0
    THEN [raised |-> FALSE, results |-> <<>>, early |-> TRUE]
    ELSE IF embed = "raise"
    THEN [raised |-> TRUE, results |-> <<>>, early |-> FALSE]
    ELSE LET c == Collect(documents,
                          FaissSearch(index.vecs, EmbedText(query), top_k))
         IN  [raised |-> c.raised, results |-> c.results, early |-> FALSE]

NoSearch == [raised |-> FALSE, results |-> <<>>, early |-> TRUE]
NoSearchCall == [query |-> <<>>, top_k |-> 1]
NoVectorCall == [query |-> <<>>, top_k |-> 1, embed |-> "ok"]

-----------------------------------------------------------------------------
(* KeywordSearch.search (src/src/search/keyword_search.py) over            *)
(* rank_bm25.BM25Okapi with its defaults k1 = 1.5, b = 0.75, epsilon =     *)
(* 0.25.  Logarithms and scores are held in thousandths and millionths;    *)
(* the sign of a score and the order of two scores are the real ones on    *)
(* the corpora checked.                                                    *)

\* 1000 * ln(m + 0.5)
LnHalf(m) == CASE m = 0 -> -693 [] m = 1 -> 405 [] m = 2 -> 916
               [] m = 3 -> 1253 [] m = 4 -> 1504 [] OTHER -> 1705

\* a / b rounded toward zero (b > 0)
TruncDiv(a, b) == IF a >= 0 THEN a \div b ELSE -((-a) \div b)

Vocabulary(corpus) == UNION { Range(corpus[i]) : i \in 1..Len(corpus) }

\* nd[word]: the number of documents that hold the word
DocFreq(corpus, word) ==
    Cardinality({ i \in 1..Len(corpus) : word \in Range(corpus[i]) })

\* _calc_idf: log(corpus_size - freq + 0.5) - log(freq + 0.5)
RawIdf(corpus, word) ==
    LnHalf(Len(corpus) - DocFreq(corpus, word))
    - LnHalf(DocFreq(corpus, word))

RECURSIVE IdfSumOver(_, _)
IdfSumOver(corpus, words) ==
    IF words = {} THEN 0
    ELSE LET w == CHOOSE x \in words : TRUE
         IN  RawIdf(corpus, w) + IdfSumOver(corpus, words \ {w})

\* eps = epsilon * average_idf, average_idf = idf_sum / len(idf)
Eps(corpus) ==
    TruncDiv(IdfSumOver(corpus, Vocabulary(corpus)),
             4 * Cardinality(Vocabulary(corpus)))

\* idf.get(q) or 0, after the negative idfs were replaced by eps
Idf(corpus, word) ==
    IF word \notin Vocabulary(corpus) THEN 0
    ELSE IF RawIdf(corpus, word) < 0 THEN Eps(corpus)
    ELSE RawIdf(corpus, word)

\* doc_freqs[i].get(q) or 0
Freq(tokens, word) ==
    Cardinality({ j \in 1..Len(tokens) : tokens[j] = word })

\* 1000 * f (k1 + 1) / (f + k1 (1 - b + b dl / avgdl)), avgdl = total / N
TfPart(corpus, i, word) ==
    LET f     == Freq(corpus[i], word)
        total == TotalTokens(corpus)
    IN  (20000 * f * total)
        \div (8 * f * total + 3 * total + 9 * Len(corpus[i]) * Len(corpus))

RECURSIVE ScoreFrom(_, _, _, _)
ScoreFrom(corpus, tokens, i, j) ==
    IF j > Len(tokens) THEN 0
    ELSE Idf(corpus, tokens[j]) * TfPart(corpus, i, tokens[j])
         + ScoreFrom(corpus, tokens, i, j + 1)

\* BM25Okapi.get_scores: one score for each document of the corpus
GetScores(corpus, tokens) ==
    [i \in 1..Len(corpus) |-> ScoreFrom(corpus, tokens, i, 1)]

\* scores.argsort(): positions by ascending score; the arrays here are
\* short, on which numpy sorts by insertion, keeping equal scores in
\* position order
RECURSIVE ArgSort(_, _)
ArgSort(scores, left) ==
    IF left = {} THEN <<>>
    ELSE LET least == CHOOSE i \in left :
                         \A j \in left :
                             \/ scores[i] < scores[j]
                             \/ scores[i] = scores[j] /\ i <= j
         IN  <<least>> \o ArgSort(scores, left \ {least})

Reverse(s) == [i \in 1..Len(s) |-> s[Len(s) + 1 - i]]

\* scores.argsort()[-top_k:][::-1]
TopIndices(scores, top_k) ==
    LET order == ArgSort(scores, 1..Len(scores))
        n     == Len(order)
    IN  Reverse(SubSeq(order, n - Min2(top_k, n) + 1, n))

\* the result loop without its guard
KeepScoreMutAny(score) == TRUE

\* the guard of the result loop: "if score > 0"
KeepScore(score) == score > 0

\* lines 70-74: the result loop; self.documents[idx] raises when the list
\* is shorter than the corpus the BM25 structure was built on
RECURSIVE KeywordCollect(_, _, _, _, _)
KeywordCollect(documents, scores, top, j, acc) ==
    IF j > Len(top) THEN [raised |-> FALSE, results |-> acc]
    ELSE IF ~KeepScore(scores[top[j]])
    THEN KeywordCollect(documents, scores, top, j + 1, acc)
    ELSE IF top[j] > Len(documents)
    THEN [raised |-> TRUE, results |-> <<>>]
    ELSE KeywordCollect(documents, scores, top, j + 1,
             Append(acc, [doc |-> documents[top[j]],
                          score |-> scores[top[j]]]))

\* KeywordSearch.search
KeywordSearchSearch(bm25, documents, query, top_k) ==
    IF bm25.none
    THEN [raised |-> FALSE, results |-> <<>>]
    ELSE LET scores == GetScores(bm25.corpus, Tokenize(query))
         IN  KeywordCollect(documents, scores, TopIndices(scores, top_k),
                            1, <<>>)

-----------------------------------------------------------------------------
(* The index state machine: RAGSystem start-up, the ingest and clear        *)
(* requests, shutdown, and a concurrent VectorStore.search.  One statement  *)
(* of build_index / load / save is one step of the worker running it.       *)

NoBM25 == [none |-> TRUE, corpus |-> <<>>]

NoDisk == [index |-> [exists |-> FALSE, vecs |-> <<>>],
           meta  |-> [exists |-> FALSE, readable |-> FALSE,
                      documents |-> <<>>, embeddings |-> NoArray]]

\* no save call has written both artifacts
NoSave == [ok |-> FALSE, index |-> NoArray, documents |-> <<>>]

\* the files on disk are not those of one save call, and no load read such
NotSaved == [disk |-> NoSave, load |-> NoSave]

\* the ingestion script is not running
NoScript == [pc |-> "idle", chunks |-> <<>>]

\* VectorStore.__init__ and KeywordSearch.__init__
NewStores ==
    /\ vs_index = NoArray
    /\ vs_documents = <<>>
    /\ vs_doc_embeddings = NoArray
    /\ ks_bm25 = NoBM25
    /\ ks_documents = <<>>
    /\ ks_tokenized_corpus = <<>>

NoKeywordSearch == [raised |-> FALSE, results |-> <<>>]

\* the index state: both components' fields
StoreState ==
    [index |-> vs_index, documents |-> vs_documents,
     doc_embeddings |-> vs_doc_embeddings, bm25 |-> ks_bm25,
     ks_documents |-> ks_documents, tokenized_corpus |-> ks_tokenized_corpus]

\* the index state of newly constructed components
NewStoreState ==
    [index |-> NoArray, documents |-> <<>>, doc_embeddings |-> NoArray,
     bm25 |-> NoBM25, ks_documents |-> <<>>, tokenized_corpus |-> <<>>]

\* no operation is running and the last one did not fail
NoBefore == [none |-> TRUE]

\* no ingest request has just been answered 200
NotServed == [ok |-> FALSE, chunks |-> <<>>]

ReaderIdle ==
    /\ r_pc = "idle"
    /\ r_call = NoVectorCall
    /\ r_index = NoArray
    /\ r_j = 1
    /\ r_docs = <<>>
    /\ r_reads = {}
    /\ r_ret = NoSearch
    /\ k_pc = "idle"
    /\ k_call = NoSearchCall
    /\ k_ret = NoKeywordSearch

\* RAGSystem.__init__ up to the call of load_indexes, on an empty index
\* directory
IndexInit ==
    /\ NewStores
    /\ disk = NoDisk
    /\ saved = NotSaved
    /\ script = NoScript
    /\ w_op = "boot" /\ w_pc = "boot"
    /\ w_chunks = <<>> /\ w_emb = <<>>
    /\ w_status = "none"
    /\ w_served = NotServed
    /\ w_before = NewStoreState
    /\ n_ops = 0
    /\ ReaderIdle
    /\ snapshots = {}

\* the index components at rest, for the specifications of other components
IdleIndex ==
    /\ NewStores
    /\ disk = NoDisk
    /\ saved = NotSaved
    /\ script = NoScript
    /\ w_op = "none" /\ w_pc = "idle"
    /\ w_chunks = <<>> /\ w_emb = <<>>
    /\ w_status = "none"
    /\ w_served = NotServed
    /\ w_before = NoBefore
    /\ n_ops = 0
    /\ ReaderIdle
    /\ snapshots = {}

Others == <<fusionVars, queryVars, kwVars, chunkVars, cacheVars, script>>

\* the running operation ends (normally or by an exception its handler
\* caught); the VectorStore state it leaves (index, documents) is one no
\* operation is changing
Finish(status, index, documents) ==
    /\ w_op' = "none"
    /\ w_pc' = "idle"
    /\ w_chunks' = <<>>
    /\ w_emb' = <<>>
    /\ w_status' = status
    /\ w_served' = IF w_op = "ingest" /\ status = "ok"
                   THEN [ok |-> TRUE, chunks |-> w_chunks]
                   ELSE NotServed
    /\ w_before' = IF status \in {"error", "load_failed"}
                   THEN w_before ELSE NoBefore
    /\ snapshots' = snapshots \cup
                    { [index |-> index, documents |-> documents] }

Goto(pc) ==
    /\ w_pc' = pc
    /\ UNCHANGED <<w_op, w_status, w_served, w_before, n_ops, snapshots>>

\* RAGSystem.load_indexes, lines 41-57: both artifacts must exist
Boot ==
    /\ w_pc = "boot"
    /\ IF disk.index.exists /\ disk.meta.exists
       THEN Goto("load_index") /\ UNCHANGED <<w_chunks, w_emb>>
       ELSE Finish("fresh", vs_index, vs_documents) /\ UNCHANGED n_ops
    /\ UNCHANGED <<storeVars, disk, saved, readerVars, Others>>

\* load that starts from a new empty index instead of the saved file
LoadIndexMutNew ==
    /\ w_pc = "load_index"
    /\ vs_index' = Array(<<>>)
    /\ saved' = [saved EXCEPT !.load = saved.disk]
    /\ Goto("load_meta")
    /\ UNCHANGED <<vs_documents, vs_doc_embeddings, ks_bm25, ks_documents,
                   ks_tokenized_corpus, disk, w_chunks, w_emb,
                   readerVars, Others>>

\* VectorStore.load, line 96: self.index = faiss.read_index(...)
LoadIndex ==
    /\ w_pc = "load_index"
    /\ vs_index' = Array(disk.index.vecs)
    /\ saved' = [saved EXCEPT !.load = saved.disk]
    /\ Goto("load_meta")
    /\ UNCHANGED <<vs_documents, vs_doc_embeddings, ks_bm25, ks_documents,
                   ks_tokenized_corpus, disk, w_chunks, w_emb, readerVars,
                   Others>>

\* VectorStore.load, lines 99-103: unpickle the metadata, then take its
\* documents and embeddings; no count is compared.  An unreadable pickle
\* raises, and load_indexes catches it.
LoadMeta ==
    /\ w_pc = "load_meta"
    /\ IF disk.meta.readable
       THEN /\ vs_documents' = disk.meta.documents
            /\ vs_doc_embeddings' = disk.meta.embeddings
            /\ w_chunks' = disk.meta.documents
            /\ Goto("ks_docs")
            /\ UNCHANGED w_emb
       ELSE /\ Finish("load_failed", vs_index, vs_documents)
            /\ UNCHANGED <<vs_documents, vs_doc_embeddings, n_ops>>
    /\ saved' = [saved EXCEPT !.load = IF saved.disk = saved.load
                                       THEN saved.load ELSE NoSave]
    /\ UNCHANGED <<vs_index, ks_bm25, ks_documents, ks_tokenized_corpus,
                   disk, readerVars, Others>>

\* POST /ingest, lines 95-115: the uploaded files are loaded and chunked
IngestDocuments ==
    /\ w_pc = "idle"
    /\ r_pc = "idle"
    /\ k_pc = "idle"
    /\ n_ops < MaxOps
    /\ \E chunks \in ChunkLists : w_chunks' = chunks
    /\ w_op' = "ingest"
    /\ w_pc' = "vs_embed"
    /\ n_ops' = n_ops + 1
    /\ w_served' = NotServed
    /\ w_before' = StoreState
    /\ UNCHANGED <<storeVars, disk, saved, w_emb, w_status, readerVars, snapshots,
                   Others>>

\* DELETE /documents: a request arrives
ClearDocuments ==
    /\ w_pc = "idle"
    /\ r_pc = "idle"
    /\ k_pc = "idle"
    /\ n_ops < MaxOps
    /\ w_op' = "clear"
    /\ w_pc' = "clear_vs"
    /\ n_ops' = n_ops + 1
    /\ w_served' = NotServed
    /\ w_before' = StoreState
    /\ UNCHANGED <<storeVars, disk, saved, w_chunks, w_emb, w_status, readerVars,
                   snapshots, Others>>

\* clear_documents, line 193: rag_system.vector_store.documents = []
ClearVectorDocuments ==
    /\ w_pc = "clear_vs"
    /\ vs_documents' = <<>>
    /\ Goto("clear_ks")
    /\ UNCHANGED <<vs_index, vs_doc_embeddings, ks_bm25, ks_documents,
                   ks_tokenized_corpus, disk, saved, w_chunks, w_emb, readerVars,
                   Others>>

\* clear_documents, line 194: rag_system.keyword_search.documents = [];
\* then line 197 calls vector_store.build_index([])
ClearKeywordDocuments ==
    /\ w_pc = "clear_ks"
    /\ ks_documents' = <<>>
    /\ w_chunks' = <<>>
    /\ Goto("vs_embed")
    /\ UNCHANGED <<vs_index, vs_documents, vs_doc_embeddings, ks_bm25,
                   ks_tokenized_corpus, disk, saved, w_emb, readerVars, Others>>

\* VectorStore.build_index, lines 32-35: embed the texts.  The provider may
\* fail, and the exception ends the request (HTTP 500).
BuildEmbed ==
    /\ w_pc = "vs_embed"
    /\ \/ /\ w_emb' = EmbedTexts(w_chunks)
          /\ Goto("vs_new")
          /\ UNCHANGED w_chunks
       \/ /\ Finish("error", vs_index, vs_documents)
          /\ UNCHANGED n_ops
    /\ UNCHANGED <<storeVars, disk, saved, readerVars, Others>>

\* line 38: self.index = faiss.IndexFlatL2(self.dimension)
BuildNewIndex ==
    /\ w_pc = "vs_new"
    /\ vs_index' = Array(<<>>)
    /\ Goto("vs_add")
    /\ UNCHANGED <<vs_documents, vs_doc_embeddings, ks_bm25, ks_documents,
                   ks_tokenized_corpus, disk, saved, w_chunks, w_emb, readerVars,
                   Others>>

\* line 39: self.index.add(embeddings).  encode([]) yields an array of
\* shape (0,), which add cannot unpack into (n, d): it raises.
BuildAdd ==
    /\ w_pc = "vs_add"
    /\ IF w_emb = <<>>
       THEN /\ Finish("error", vs_index, vs_documents)
            /\ UNCHANGED <<vs_index, n_ops>>
       ELSE /\ vs_index' = Array(w_emb)
            /\ Goto("vs_docs")
            /\ UNCHANGED <<w_chunks, w_emb>>
    /\ UNCHANGED <<vs_documents, vs_doc_embeddings, ks_bm25, ks_documents,
                   ks_tokenized_corpus, disk, saved, readerVars, Others>>

\* line 42 as an append to the list already held
BuildSetDocumentsMutAppend ==
    /\ w_pc = "vs_docs"
    /\ vs_documents' = vs_documents \o w_chunks
    /\ Goto("vs_emb")
    /\ UNCHANGED <<vs_index, vs_doc_embeddings, ks_bm25, ks_documents,
                   ks_tokenized_corpus, disk, saved, w_chunks, w_emb, readerVars,
                   Others>>

\* line 42: self.documents = documents
BuildSetDocuments ==
    /\ w_pc = "vs_docs"
    /\ vs_documents' = w_chunks
    /\ Goto("vs_emb")
    /\ UNCHANGED <<vs_index, vs_doc_embeddings, ks_bm25, ks_documents,
                   ks_tokenized_corpus, disk, saved, w_chunks, w_emb, readerVars,
                   Others>>

\* line 43: self.doc_embeddings = embeddings; the caller goes on to
\* keyword_search.build_index
BuildSetEmbeddings ==
    /\ w_pc = "vs_emb"
    /\ vs_doc_embeddings' = Array(w_emb)
    /\ Goto("ks_docs")
    /\ UNCHANGED <<vs_index, vs_documents, ks_bm25, ks_documents,
                   ks_tokenized_corpus, disk, saved, w_chunks, w_emb, readerVars,
                   Others>>

\* line 38 left out: the keyword index keeps the list it held
KeywordSetDocumentsMutKeep ==
    /\ w_pc = "ks_docs"
    /\ Goto("ks_tok")
    /\ UNCHANGED <<vs_index, vs_documents, vs_doc_embeddings, ks_bm25,
                   ks_documents, ks_tokenized_corpus, disk, saved, w_chunks,
                   w_emb, readerVars, Others>>

\* KeywordSearch.build_index, line 38: self.documents = documents
KeywordSetDocuments ==
    /\ w_pc = "ks_docs"
    /\ ks_documents' = w_chunks
    /\ Goto("ks_tok")
    /\ UNCHANGED <<vs_index, vs_documents, vs_doc_embeddings, ks_bm25,
                   ks_tokenized_corpus, disk, saved, w_chunks, w_emb, readerVars,
                   Others>>

\* lines 41-43: self.tokenized_corpus = [...]
KeywordTokenize ==
    /\ w_pc = "ks_tok"
    /\ ks_tokenized_corpus' = TokenizeAll(w_chunks)
    /\ Goto("ks_bm25")
    /\ UNCHANGED <<vs_index, vs_documents, vs_doc_embeddings, ks_bm25,
                   ks_documents, disk, saved, w_chunks, w_emb, readerVars, Others>>

\* line 46: self.bm25 = BM25Okapi(self.tokenized_corpus).  The constructor
\* divides by the corpus size and by the vocabulary size, so it raises on a
\* corpus without a token.  After it, ingest saves the indexes; clear and
\* start-up are finished.
KeywordBuildBM25 ==
    /\ w_pc = "ks_bm25"
    /\ IF TotalTokens(ks_tokenized_corpus) = 0
       THEN /\ Finish(IF w_op = "boot" THEN "load_failed" ELSE "error",
                      vs_index, vs_documents)
            /\ UNCHANGED <<ks_bm25, n_ops>>
       ELSE /\ ks_bm25' = [none |-> FALSE, corpus |-> ks_tokenized_corpus]
            /\ IF w_op = "ingest"
               THEN Goto("save_index") /\ UNCHANGED <<w_chunks, w_emb>>
               ELSE Finish(IF w_op = "boot" THEN "loaded" ELSE "ok",
                           vs_index, vs_documents)
                    /\ UNCHANGED n_ops
    /\ UNCHANGED <<vs_index, vs_documents, vs_doc_embeddings, ks_documents,
                   ks_tokenized_corpus, disk, saved, readerVars, Others>>

\* after save_indexes: ingest answers 200, shutdown ends the process
AfterSave ==
    IF w_op = "shutdown"
    THEN Goto("exit") /\ UNCHANGED <<w_chunks, w_emb>>
    ELSE Finish("ok", vs_index, vs_documents) /\ UNCHANGED n_ops

\* VectorStore.save, lines 76-80, under save_indexes' try: without an index
\* it raises; writing the index file may fail; both are logged and dropped
SaveIndex ==
    /\ w_pc = "save_index"
    /\ \/ /\ ~vs_index.none
          /\ disk' = [disk EXCEPT !.index = [exists |-> TRUE,
                                             vecs |-> vs_index.vecs]]
          /\ saved' = [saved EXCEPT !.disk = NoSave]
          /\ Goto("save_meta")
          /\ UNCHANGED <<w_chunks, w_emb>>
       \/ /\ UNCHANGED <<disk, saved>>
          /\ AfterSave
    /\ UNCHANGED <<storeVars, readerVars, Others>>

\* VectorStore.save, lines 83-88: pickle documents and embeddings.  A
\* failure leaves the old file (open failed) or a truncated one.
SaveMeta ==
    /\ w_pc = "save_meta"
    /\ \/ /\ disk' = [disk EXCEPT !.meta =
                         [exists |-> TRUE, readable |-> TRUE,
                          documents |-> vs_documents,
                          embeddings |-> vs_doc_embeddings]]
          /\ saved' = [saved EXCEPT !.disk =
                          IF disk.index.vecs = vs_index.vecs
                          THEN [ok |-> TRUE, index |-> vs_index,
                                documents |-> vs_documents]
                          ELSE NoSave]
       \/ UNCHANGED <<disk, saved>>
       \/ /\ disk' = [disk EXCEPT !.meta =
                         [exists |-> TRUE, readable |-> FALSE,
                          documents |-> <<>>, embeddings |-> NoArray]]
          /\ saved' = [saved EXCEPT !.disk = NoSave]
    /\ AfterSave
    /\ UNCHANGED <<storeVars, readerVars, Others>>

\* lifespan shutdown (src/src/main.py, lines 30-36): save_indexes
Shutdown ==
    /\ w_pc = "idle"
    /\ r_pc = "idle"
    /\ k_pc = "idle"
    /\ n_ops < MaxOps
    /\ w_op' = "shutdown"
    /\ w_pc' = "save_index"
    /\ n_ops' = n_ops + 1
    /\ w_served' = NotServed
    /\ w_before' = StoreState
    /\ UNCHANGED <<storeVars, disk, saved, w_chunks, w_emb, w_status, readerVars,
                   snapshots, Others>>

\* the process is started again: RAGSystem.__init__ builds new components
ProcessStart ==
    /\ w_pc = "exit"
    /\ vs_index' = NoArray
    /\ vs_documents' = <<>>
    /\ vs_doc_embeddings' = NoArray
    /\ ks_bm25' = NoBM25
    /\ ks_documents' = <<>>
    /\ ks_tokenized_corpus' = <<>>
    /\ w_op' = "boot"
    /\ w_pc' = "boot"
    /\ w_status' = "none"
    /\ w_served' = NotServed
    /\ w_before' = NewStoreState
    /\ snapshots' = {}
    /\ UNCHANGED <<disk, saved, w_chunks, w_emb, n_ops, readerVars, Others>>

\* scripts/ingest_documents.py main(), lines 24-77, in a process of its
\* own with a VectorStore and a KeywordSearch of its own: the documents
\* directory is loaded and chunked, both indexes are built, and save writes
\* the index file (vector_store.py line 80).  Without documents main()
\* returns at line 37 or 48; when build_index raises (no chunk, line 39 of
\* vector_store.py; no token, line 46 of keyword_search.py; provider
\* failure) or the file cannot be written, the script ends; none of these
\* runs changes anything.
ScriptMain ==
    /\ script.pc = "idle"
    /\ n_ops < MaxOps
    /\ \E chunks \in ChunkLists :
          /\ chunks # <<>>
          /\ TotalTokens(TokenizeAll(chunks)) > 0
          /\ script' = [pc |-> "save_meta", chunks |-> chunks]
          /\ disk' = [disk EXCEPT !.index = [exists |-> TRUE,
                                             vecs |-> EmbedTexts(chunks)]]
    /\ saved' = [saved EXCEPT !.disk = NoSave]
    /\ n_ops' = n_ops + 1
    /\ UNCHANGED <<storeVars, w_op, w_pc, w_chunks, w_emb, w_status, w_served,
                   w_before, readerVars, snapshots, fusionVars, queryVars,
                   kwVars, chunkVars, cacheVars>>

\* the script's VectorStore.save, lines 83-88: pickle its documents and
\* embeddings; as in SaveMeta, a failure leaves the old file or a
\* truncated one.  main() ends.
ScriptSaveMeta ==
    /\ script.pc = "save_meta"
    /\ LET emb == EmbedTexts(script.chunks)
       IN  \/ /\ disk' = [disk EXCEPT !.meta =
                             [exists |-> TRUE, readable |-> TRUE,
                              documents |-> script.chunks,
                              embeddings |-> Array(emb)]]
              /\ saved' = [saved EXCEPT !.disk =
                              IF disk.index.vecs = emb
                              THEN [ok |-> TRUE, index |-> Array(emb),
                                    documents |-> script.chunks]
                              ELSE NoSave]
           \/ UNCHANGED <<disk, saved>>
           \/ /\ disk' = [disk EXCEPT !.meta =
                             [exists |-> TRUE, readable |-> FALSE,
                              documents |-> <<>>, embeddings |-> NoArray]]
              /\ saved' = [saved EXCEPT !.disk = NoSave]
    /\ script' = NoScript
    /\ UNCHANGED <<storeVars, writerVars, readerVars, snapshots, fusionVars,
                   queryVars, kwVars, chunkVars, cacheVars>>

\* VectorStore.search while no index operation runs, start to end.  The
\* result loop reads self.documents only when the call gets that far.
Search ==
    /\ r_pc = "idle"
    /\ k_pc = "idle"
    /\ w_pc = "idle"
    /\ \E query \in QueryTexts, top_k \in {1, VECTOR_TOP_K},
          embed \in EmbedOutcomes :
           LET ret == VectorSearch(vs_index, vs_documents, query, top_k,
                                   embed)
               looped == ~ret.early /\ embed = "ok"
           IN  /\ r_call' = [query |-> query, top_k |-> top_k,
                             embed |-> embed]
               /\ r_ret' = ret
               /\ r_docs' = IF looped THEN vs_documents ELSE <<>>
               /\ r_reads' = IF looped THEN {vs_documents} ELSE {}
    /\ r_index' = vs_index
    /\ r_pc' = "done"
    /\ UNCHANGED r_j
    /\ UNCHANGED <<storeVars, disk, saved, writerVars, snapshots, Others>>

\* VectorStore.search in a second worker, statement by statement, while an
\* ingest or clear request runs.
\* lines 53-55: an absent or empty index returns []
SearchCheck ==
    /\ r_pc = "idle"
    /\ w_op \in {"ingest", "clear"}
    /\ \E query \in QueryTexts, top_k \in {1, VECTOR_TOP_K},
          embed \in EmbedOutcomes :
           r_call' = [query |-> query, top_k |-> top_k, embed |-> embed]
    /\ IF vs_index.none \/ Len(vs_index.vecs) = 0
       THEN /\ r_pc' = "done"
            /\ r_ret' = [raised |-> FALSE, results |-> <<>>, early |-> TRUE]
       ELSE /\ r_pc' = "checked"
            /\ UNCHANGED r_ret
    /\ UNCHANGED <<r_index, r_j, r_docs, r_reads, storeVars, disk, saved,
                   writerVars, snapshots, Others>>

\* lines 58-65: embed the query, and an exception of the provider leaves
\* search at line 58; else self.index.search(query_embedding, top_k) and
\* results = []
SearchIndex ==
    /\ r_pc = "checked"
    /\ IF r_call.embed = "raise"
       THEN /\ r_ret' = [raised |-> TRUE, results |-> <<>>, early |-> FALSE]
            /\ r_pc' = "done"
            /\ UNCHANGED r_index
       ELSE /\ r_index' = vs_index
            /\ r_ret' = [raised |-> FALSE, results |-> <<>>,
                         early |-> FALSE]
            /\ r_pc' = "searched"
    /\ UNCHANGED <<r_call, r_j, r_docs, r_reads, storeVars, disk, saved,
                   writerVars, snapshots, Others>>

\* the hits index.search returned to the running search
SearchHits ==
    FaissSearch(r_index.vecs, EmbedText(r_call.query), r_call.top_k)

\* lines 66-67, one turn of the result loop: the next hit, and the guard
\* "if idx < len(self.documents)", which reads self.documents; after the
\* last hit, line 72 returns the results
SearchCollect ==
    /\ r_pc = "searched"
    /\ IF r_j > Len(SearchHits)
       THEN /\ r_pc' = "done"
            /\ UNCHANGED <<r_j, r_docs, r_reads>>
       ELSE /\ r_docs' = vs_documents
            /\ r_reads' = r_reads \cup {vs_documents}
            /\ IF KeepHit(SearchHits[r_j].label, Len(vs_documents))
               THEN r_pc' = "guarded" /\ UNCHANGED r_j
               ELSE r_j' = r_j + 1 /\ UNCHANGED r_pc
    /\ UNCHANGED <<r_call, r_index, r_ret, storeVars, disk, saved, writerVars,
                   snapshots, Others>>

\* lines 69-70 of the same turn: self.documents is read again for the
\* subscript
SearchTake ==
    /\ r_pc = "guarded"
    /\ r_docs' = vs_documents
    /\ r_reads' = r_reads \cup {vs_documents}
    /\ LET t == TakeHit(vs_documents, SearchHits[r_j])
       IN  IF t.raised
           THEN /\ r_ret' = [raised |-> TRUE, results |-> <<>>,
                             early |-> FALSE]
                /\ r_pc' = "done"
                /\ UNCHANGED r_j
           ELSE /\ r_ret' = [r_ret EXCEPT !.results = Append(@, t.entry)]
                /\ r_pc' = "searched"
                /\ r_j' = r_j + 1
    /\ UNCHANGED <<r_call, r_index, storeVars, disk, saved, writerVars,
                   snapshots, Others>>

SearchReturn ==
    /\ r_pc = "done"
    /\ r_pc' = "idle"
    /\ r_call' = NoVectorCall
    /\ r_index' = NoArray
    /\ r_j' = 1
    /\ r_docs' = <<>>
    /\ r_reads' = {}
    /\ r_ret' = NoSearch
    /\ UNCHANGED <<storeVars, disk, saved, writerVars, snapshots, Others>>

\* KeywordSearch.search while no index operation runs, start to end
SearchKeyword ==
    /\ k_pc = "idle"
    /\ r_pc = "idle"
    /\ w_pc = "idle"
    /\ \E query \in QueryTexts, top_k \in {1, KEYWORD_TOP_K} :
           /\ k_call' = [query |-> query, top_k |-> top_k]
           /\ k_ret' = KeywordSearchSearch(ks_bm25, ks_documents, query,
                                           top_k)
    /\ k_pc' = "done"
    /\ UNCHANGED <<storeVars, disk, saved, script, writerVars, readerVars,
                   snapshots, fusionVars, queryVars, chunkVars, cacheVars>>

SearchKeywordReturn ==
    /\ k_pc = "done"
    /\ k_pc' = "idle"
    /\ k_call' = NoSearchCall
    /\ k_ret' = NoKeywordSearch
    /\ UNCHANGED <<storeVars, disk, saved, script, writerVars, readerVars,
                   snapshots, fusionVars, queryVars, chunkVars, cacheVars>>

\* the life of one installation: start-up, requests one at a time, shutdown
\* and restart
Next ==
    \/ Boot \/ LoadIndex \/ LoadMeta
    \/ IngestDocuments \/ ClearDocuments
    \/ ClearVectorDocuments \/ ClearKeywordDocuments
    \/ BuildEmbed \/ BuildNewIndex \/ BuildAdd
    \/ BuildSetDocuments \/ BuildSetEmbeddings
    \/ KeywordSetDocuments \/ KeywordTokenize \/ KeywordBuildBM25
    \/ SaveIndex \/ SaveMeta \/ Shutdown \/ ProcessStart
    \/ ScriptMain \/ ScriptSaveMeta
    \/ Search \/ SearchReturn
    \/ SearchKeyword \/ SearchKeywordReturn

\* one running process: ingest and clear requests, with a search running
\* beside them in a second worker
NextConcurrent ==
    \/ IngestDocuments \/ ClearDocuments
    \/ ClearVectorDocuments \/ ClearKeywordDocuments
    \/ BuildEmbed \/ BuildNewIndex \/ BuildAdd
    \/ BuildSetDocuments \/ BuildSetEmbeddings
    \/ KeywordSetDocuments \/ KeywordTokenize \/ KeywordBuildBM25
    \/ SaveIndex \/ SaveMeta
    \/ SearchCheck \/ SearchIndex \/ SearchCollect \/ SearchTake
    \/ SearchReturn

-----------------------------------------------------------------------------
(* TextProcessor (src/src/ingestion/text_processor.py) and the documents    *)
(* DocumentLoader.load_file hands it (src/src/ingestion/document_loader.py) *)

\* a text of n word characters
LongText(n) == [i \in 1..n |-> "a"]

\* page texts: empty; one that cleaning shortens to "a."; one over the chunk
\* size; one over two chunk steps.  None has whitespace or ". " inside after
\* cleaning, so the splitter falls through to its last separator, "".
PageTexts == { <<>>,
               <<" ", "#", "a", ".", ".", " ">>,
               LongText(CHUNK_SIZE + 1),
               LongText(2 * CHUNK_SIZE - CHUNK_OVERLAP + 1) }

FilePaths == {"a.pdf", "b.pdf"}

\* load_file: every Document a loader returns for one file (one per page for
\* a PDF) gets that file's path as its source
LoadedDocuments ==
    { [page_content |-> t, metadata |-> [source |-> s, page |-> p]] :
        t \in PageTexts, s \in FilePaths, p \in 0..(MaxPages - 1) }

\* the all_docs of an ingest request: the pages of each uploaded file, in
\* page order, one file after the other (a file name may be uploaded twice)
DocumentLists ==
    { s \in UNION { [1..n -> LoadedDocuments] : n \in 0..MaxDocs } :
        \A i \in 1..Len(s) :
            s[i].metadata.page > 0 =>
                /\ i > 1
                /\ s[i - 1].metadata.source = s[i].metadata.source
                /\ s[i - 1].metadata.page = s[i].metadata.page - 1 }

WordChars == {"a", "b", "c", "A", "B"}

\* the characters the second substitution keeps: [\w\s.,!?;:()\-"]
CleanKeeps == WordChars \cup Whitespace
                \cup {".", ",", "!", "?", ";", ":", "(", ")", "-", "\""}

\* re.sub of a pattern matching runs of characters of `set` by one `by`
CollapseRuns(text, set, by) ==
    LET first(i) == ~(text[i] \in set /\ i > 1 /\ text[i - 1] \in set)
        kept == SelectSeq([i \in 1..Len(text) |-> i], first)
    IN  [j \in 1..Len(kept) |->
            IF text[kept[j]] \in set THEN by ELSE text[kept[j]]]

\* str.strip()
StripSpace(text) ==
    LET inside == { i \in 1..Len(text) : text[i] \notin Whitespace }
    IN  IF inside = {} THEN <<>>
        ELSE SubSeq(text, CHOOSE i \in inside : \A j \in inside : i <= j,
                          CHOOSE i \in inside : \A j \in inside : i >= j)

\* TextProcessor.clean_text
CleanText(text) ==
    LET spaced == CollapseRuns(text, Whitespace, " ")
        kept == SelectSeq(spaced, LAMBDA c : c \in CleanKeeps)
        dotted == CollapseRuns(kept, {"."}, ".")
    IN  StripSpace(dotted)

\* RecursiveCharacterTextSplitter.split_text on a text without "\n", ". " or
\* " ": the text is split into characters, which are merged into pieces of
\* chunk_size characters; after a piece is emitted its last chunk_overlap
\* characters start the next one.  Each piece is stripped, an empty one
\* dropped.
NumPieces(n) ==
    IF n = 0 THEN 0
    ELSE IF n <= CHUNK_SIZE THEN 1
    ELSE 1 + ((n - CHUNK_SIZE) + (CHUNK_SIZE - CHUNK_OVERLAP - 1))
                \div (CHUNK_SIZE - CHUNK_OVERLAP)

SplitText(text) ==
    LET step == CHUNK_SIZE - CHUNK_OVERLAP
        piece(k) == StripSpace(SubSeq(text, 1 + (k - 1) * step,
                                      Min2(Len(text),
                                           CHUNK_SIZE + (k - 1) * step)))
    IN  SelectSeq([k \in 1..NumPieces(Len(text)) |-> piece(k)], NonEmpty)

\* chunk_documents, the body of the loop over documents: clean, split, and
\* number the pieces of this document
ChunkDocument(doc) ==
    LET pieces == SplitText(CleanText(doc.page_content))
    IN  [i \in 1..Len(pieces) |->
            [page_content |-> pieces[i],
             metadata |-> [source |-> doc.metadata.source,
                           page |-> doc.metadata.page,
                           chunk_id |-> i - 1,
                           total_chunks |-> Len(pieces),
                           chunk_size |-> Len(pieces[i])]]]

\* the loop body's result for every document load_file can produce
ChunksOf == [doc \in LoadedDocuments |-> ChunkDocument(doc)]

RECURSIVE ChunkFrom(_, _)
ChunkFrom(documents, d) ==
    IF d > Len(documents) THEN <<>>
    ELSE ChunksOf[documents[d]] \o ChunkFrom(documents, d + 1)

\* TextProcessor.chunk_documents
ChunkDocuments(documents) == ChunkFrom(documents, 1)

\* TextProcessor.process_documents
ProcessDocuments(documents) == ChunkDocuments(documents)

IdleChunker ==
    /\ tp_pc = "idle"
    /\ tp_in = <<>>
    /\ tp_out = <<>>

\* one call of process_documents on the documents of an ingest request
ProcessDocumentsCall ==
    /\ tp_pc = "idle"
    /\ \E documents \in DocumentLists :
          /\ tp_in' = documents
          /\ tp_out' = ProcessDocuments(documents)
    /\ tp_pc' = "done"
    /\ UNCHANGED <<fusionVars, queryVars, indexVars, cacheVars>>

ProcessDocumentsReturn ==
    /\ tp_pc = "done"
    /\ tp_pc' = "idle"
    /\ tp_in' = <<>>
    /\ tp_out' = <<>>
    /\ UNCHANGED <<fusionVars, queryVars, indexVars, cacheVars>>

NextChunker == ProcessDocumentsCall \/ ProcessDocumentsReturn

-----------------------------------------------------------------------------
(* get_rag_system (src/src/api/dependencies.py, lines 71-77): RAGSystem()   *)
(* behind functools.lru_cache.  The wrapper looks the key up; on a miss it  *)
(* calls the function with no lock held, then stores the result unless the  *)
(* key was stored meanwhile, and returns the result of its own call.        *)

Callers == 1..MaxCallers

NoInstance == 0

\* the module after import: nothing cached, nobody calling
IdleCache ==
    /\ c_pc = [t \in Callers |-> "idle"]
    /\ c_ret = [t \in Callers |-> NoInstance]
    /\ cache = NoInstance
    /\ n_built = 0

\* a call starts: the cache lookup
GetRagSystemLookup(t) ==
    /\ c_pc[t] = "idle"
    /\ IF cache # NoInstance
       THEN /\ c_pc' = [c_pc EXCEPT ![t] = "returned"]
            /\ c_ret' = [c_ret EXCEPT ![t] = cache]
       ELSE /\ c_pc' = [c_pc EXCEPT ![t] = "missed"]
            /\ UNCHANGED c_ret
    /\ UNCHANGED <<cache, n_built>>
    /\ UNCHANGED <<fusionVars, queryVars, indexVars, chunkVars>>

\* line 77 after a miss: RAGSystem() builds a new instance
RAGSystemConstruct(t) ==
    /\ c_pc[t] = "missed"
    /\ n_built' = n_built + 1
    /\ c_ret' = [c_ret EXCEPT ![t] = n_built + 1]
    /\ c_pc' = [c_pc EXCEPT ![t] = "built"]
    /\ UNCHANGED cache
    /\ UNCHANGED <<fusionVars, queryVars, indexVars, chunkVars>>

\* the wrapper after the call: the result is cached unless another call
\* cached one meanwhile; the caller gets the instance its own call built
GetRagSystemStore(t) ==
    /\ c_pc[t] = "built"
    /\ cache' = IF cache = NoInstance THEN c_ret[t] ELSE cache
    /\ c_pc' = [c_pc EXCEPT ![t] = "returned"]
    /\ UNCHANGED <<c_ret, n_built>>
    /\ UNCHANGED <<fusionVars, queryVars, indexVars, chunkVars>>

\* the request that asked for the instance ends; the thread may serve
\* another one
GetRagSystemDone(t) ==
    /\ c_pc[t] = "returned"
    /\ c_pc' = [c_pc EXCEPT ![t] = "idle"]
    /\ c_ret' = [c_ret EXCEPT ![t] = NoInstance]
    /\ UNCHANGED <<cache, n_built>>
    /\ UNCHANGED <<fusionVars, queryVars, indexVars, chunkVars>>

NextCache ==
    \E t \in Callers :
        \/ GetRagSystemLookup(t)
        \/ RAGSystemConstruct(t)
        \/ GetRagSystemStore(t)
        \/ GetRagSystemDone(t)

-----------------------------------------------------------------------------
(* Specifications: each runs one component from its constructed state,     *)
(* the others at rest.                                                     *)
FusionInit ==
    /\ hs_pc = "idle"
    /\ hs_in = NoCall
    /\ hs_exc = "none"
    /\ hs_out = <<>>
    /\ IdleQuery
    /\ IdleIndex
    /\ IdleChunker
    /\ IdleCache

SpecFusion == FusionInit /\ [][NextFusion]_vars

QueryInit ==
    /\ \E provider \in {"groq", "openai", "bedrock"},
          key_set \in BOOLEAN, init_ok \in BOOLEAN :
          gen = NewGenerator(provider, key_set, init_ok)
    /\ g_pc = "idle"
    /\ g_call = NoQueryCall
    /\ g_ret = NoReturn
    /\ q_resp = NoResponse
    /\ IdleFusion
    /\ IdleIndex
    /\ IdleChunker
    /\ IdleCache

SpecQuery == QueryInit /\ [][NextQuery]_vars

Init ==
    /\ IndexInit
    /\ IdleFusion
    /\ IdleQuery
    /\ IdleChunker
    /\ IdleCache

Spec == Init /\ [][Next]_vars

\* a running process that has served its earlier requests one at a time:
\* it started on an empty index directory, and either nothing was ingested
\* yet or the last ingest built and saved the index of some chunk list.
\* One more request is served, with searches beside it.
ConcurrentInit ==
    /\ \E chunks \in ChunkLists :
          IF chunks = <<>>
          THEN /\ NewStores
               /\ disk = NoDisk
               /\ saved = NotSaved
               /\ w_status = "fresh"
               /\ w_served = NotServed
          ELSE /\ vs_index = Array(EmbedTexts(chunks))
               /\ vs_documents = chunks
               /\ vs_doc_embeddings = Array(EmbedTexts(chunks))
               /\ ks_bm25 = [none |-> FALSE, corpus |-> TokenizeAll(chunks)]
               /\ ks_documents = chunks
               /\ ks_tokenized_corpus = TokenizeAll(chunks)
               /\ disk = [index |-> [exists |-> TRUE,
                                     vecs |-> EmbedTexts(chunks)],
                          meta |-> [exists |-> TRUE, readable |-> TRUE,
                                    documents |-> chunks,
                                    embeddings |-> Array(EmbedTexts(chunks))]]
               /\ saved = [disk |-> [ok |-> TRUE, index |-> vs_index,
                                     documents |-> vs_documents],
                           load |-> NoSave]
               /\ w_status = "ok"
               /\ w_served = [ok |-> TRUE, chunks |-> chunks]
    /\ w_op = "none" /\ w_pc = "idle"
    /\ w_chunks = <<>> /\ w_emb = <<>>
    /\ w_before = NoBefore
    /\ script = NoScript
    /\ n_ops = MaxOps - 1
    /\ ReaderIdle
    /\ snapshots = { [index |-> vs_index, documents |-> vs_documents] }
    /\ IdleFusion
    /\ IdleQuery
    /\ IdleChunker
    /\ IdleCache

SpecConcurrent == ConcurrentInit /\ [][NextConcurrent]_vars

\* the state an ingest request that was answered 200 leaves: both indexes
\* built from its chunks, and saved
AfterIngest(chunks) ==
    /\ vs_index = Array(EmbedTexts(chunks))
    /\ vs_documents = chunks
    /\ vs_doc_embeddings = Array(EmbedTexts(chunks))
    /\ ks_bm25 = [none |-> FALSE, corpus |-> TokenizeAll(chunks)]
    /\ ks_documents = chunks
    /\ ks_tokenized_corpus = TokenizeAll(chunks)
    /\ disk = [index |-> [exists |-> TRUE, vecs |-> EmbedTexts(chunks)],
               meta |-> [exists |-> TRUE, readable |-> TRUE,
                         documents |-> chunks,
                         embeddings |-> Array(EmbedTexts(chunks))]]
    /\ saved = [disk |-> [ok |-> TRUE, index |-> vs_index,
                          documents |-> vs_documents],
                load |-> NoSave]
    /\ w_status = "ok"
    /\ w_served = [ok |-> TRUE, chunks |-> chunks]
    /\ w_op = "none" /\ w_pc = "idle"
    /\ w_chunks = <<>> /\ w_emb = <<>>
    /\ w_before = NoBefore
    /\ script = NoScript
    /\ snapshots = { [index |-> vs_index, documents |-> vs_documents] }

\* keyword searches on an index built by one ingest request, among whose
\* chunks some have the same tokens
KeywordInit ==
    /\ \E chunks \in TieChunkLists : AfterIngest(chunks)
    /\ n_ops = 1
    /\ ReaderIdle
    /\ IdleFusion
    /\ IdleQuery
    /\ IdleChunker
    /\ IdleCache

NextKeyword == SearchKeyword \/ SearchKeywordReturn

SpecKeyword == KeywordInit /\ [][NextKeyword]_vars

ChunkerInit ==
    /\ IdleChunker
    /\ IdleCache
    /\ IdleFusion
    /\ IdleQuery
    /\ IdleIndex

SpecChunker == ChunkerInit /\ [][NextChunker]_vars

CacheInit ==
    /\ IdleCache
    /\ IdleChunker
    /\ IdleFusion
    /\ IdleQuery
    /\ IdleIndex

SpecCache == CacheInit /\ [][NextCache]_vars

-----------------------------------------------------------------------------
(* Properties of get_rag_system, checked under SpecCache                    *)

\* C20: however many threads make their first call to get_rag_system at
\* the same time, RAGSystem is constructed once and every call returns the
\* same instance
C20_ConstructedOnce ==
    /\ n_built <= 1
    /\ \A t, u \in Callers :
          (c_pc[t] = "returned" /\ c_pc[u] = "returned")
              => c_ret[t] = c_ret[u]

-----------------------------------------------------------------------------
(* Properties of TextProcessor.process_documents, checked under SpecChunker *)

\* C17: among the chunks one process_documents call returns, those with the
\* same source carry the same total_chunks, and every chunk's chunk_id is
\* below its total_chunks
C17_TotalChunksPerSource ==
    tp_pc = "done" =>
        /\ \A i, j \in 1..Len(tp_out) :
              tp_out[i].metadata.source = tp_out[j].metadata.source
                  => tp_out[i].metadata.total_chunks
                       = tp_out[j].metadata.total_chunks
        /\ \A i \in 1..Len(tp_out) :
              tp_out[i].metadata.chunk_id < tp_out[i].metadata.total_chunks

-----------------------------------------------------------------------------
(* Properties of query_documents and LLMGenerator.generate, checked under  *)
(* SpecQuery                                                               *)

\* the last call reached the provider and the provider's call failed
ProviderCallFailed ==
    /\ g_pc \in {"generated", "answered"}
    /\ gen.client
    /\ g_call.outcome = "raise"
    /\ \/ g_call.op = "generate"
       \/ g_call.op = "query" /\ ~g_call.search.raised
                              /\ g_call.search.results # <<>>

\* C4 (as claimed): when hybrid retrieval returns zero results the query
\* operation answers 404 "no relevant documents found", which differs from
\* the 500 it answers for a system fault.
C4_NoResultsIs404 ==
    ( /\ g_pc = "answered"
      /\ ~g_call.search.raised
      /\ g_call.search.results = <<>> ) =>
        /\ q_resp.status = HTTP_NOT_FOUND
        /\ q_resp.status # HTTP_ERROR

\* C5: when the configured provider's call fails, generate does not raise
\* and returns the extractive fallback answer for its context chunks.
C5_ProviderFailureFallsBack ==
    ProviderCallFailed =>
        /\ ~g_ret.raised
        /\ g_ret.answer = GenerateFallback(g_call.query, g_call.documents)

\* a generate call with a client, a failing provider and a non-empty context
C5_Witness ==
    /\ g_pc = "generated"
    /\ gen.client
    /\ g_call.outcome = "raise"
    /\ g_call.documents # <<>>
    /\ ~g_ret.raised
    /\ g_ret.answer.kind = "excerpt"

\* LLMGenerator.generate ran and returned
GenerateReturned ==
    /\ g_pc \in {"generated", "answered"}
    /\ \/ g_call.op = "generate"
       \/ g_call.op = "query" /\ ~g_call.search.raised
                              /\ g_call.search.results # <<>>
    /\ ~g_ret.raised

\* the answer came from the fallback path: no client, or the call failed
FallbackPath ==
    /\ GenerateReturned
    /\ ~gen.client \/ g_call.outcome = "raise"

\* C24 (as claimed): model_used is "fallback" exactly when the answer text
\* was made by _generate_fallback, and "<provider>:<model>" exactly when
\* it is what a successful provider call returned (its text, or None).
C24_ModelUsedNamesThePath ==
    GenerateReturned =>
        /\ g_ret.model_used = <<"fallback">>
              <=> g_ret.answer.kind \in {"no_information", "excerpt"}
        /\ g_ret.model_used = <<gen.provider, gen.model_name>>
              <=> g_ret.answer.kind \in {"llm", "null"}

\* C15: on the fallback path an empty context gives the fixed "no relevant
\* information" message; otherwise the answer is the excerpt template with
\* the first chunk's source identifier and the first 500 characters of the
\* first chunk's text, whatever the other chunks are.
C15_FallbackAnswer ==
    FallbackPath =>
        IF g_call.documents = <<>>
        THEN g_ret.answer.kind = "no_information"
        ELSE LET first == g_call.documents[1]
                 n     == Min2(FALLBACK_PREVIEW, Len(first.text))
             IN  /\ g_ret.answer.kind = "excerpt"
                 /\ g_ret.answer.source =
                        (IF first.source = "" THEN "Unknown source"
                         ELSE first.source)
                 /\ Len(g_ret.answer.excerpt) = n
                 /\ \A i \in 1..n : g_ret.answer.excerpt[i] = first.text[i]

\* a fallback answer cut from a first chunk longer than the preview, with a
\* second chunk in the context
C15_Witness ==
    /\ FallbackPath
    /\ Len(g_call.documents) >= 2
    /\ Len(g_call.documents[1].text) > FALLBACK_PREVIEW
    /\ g_call.documents[2] # g_call.documents[1]
    /\ Len(g_ret.answer.excerpt) = FALLBACK_PREVIEW

\* C16: whichever branch produced the answer, the sources list has one
\* entry for each context chunk, in order, with that chunk's metadata and
\* the first 200 characters of its text; no chunk, no entry.
C16_SourcesPerChunk ==
    GenerateReturned =>
        /\ Len(g_ret.sources) = Len(g_call.documents)
        /\ \A i \in 1..Len(g_call.documents) :
               /\ g_ret.sources[i].metadata = g_call.documents[i].source
               /\ g_ret.sources[i].content =
                      SubSeq(g_call.documents[i].text, 1,
                             Min2(SOURCE_PREVIEW,
                                  Len(g_call.documents[i].text)))

\* a failed provider call with two different chunks in the context
C16_Witness ==
    /\ GenerateReturned
    /\ gen.client
    /\ g_call.outcome = "raise"
    /\ Len(g_call.documents) = 2
    /\ g_call.documents[1].source # g_call.documents[2].source
    /\ Len(g_ret.sources) = 2

-----------------------------------------------------------------------------
(* Properties of HybridSearch.search, checked under SpecFusion              *)

TextsIn(list) == { list[i].doc.text : i \in 1..Len(list) }

RanksOf(list, text) == { i \in 1..Len(list) : list[i].doc.text = text }

\* the contribution one list may make to a text under "one contribution per
\* list": nothing when the text is absent, else weight/(k + rank) for a rank
\* at which the text stands
OneContribution(list, text, weight) ==
    IF RanksOf(list, text) = {} THEN {0}
    ELSE { RRFScore(weight, r) : r \in RanksOf(list, text) }

\* C6 (as claimed): in RRF mode every returned chunk identity stands in at
\* least one candidate list and its fused score is vector_weight/(60 + r_v)
\* for its rank in the vector list plus keyword_weight/(60 + r_k) for its
\* rank in the keyword list, one contribution per list.
C6_OneContributionPerList ==
    (hs_pc = "done" /\ hs_in.use_rrf) =>
        \A i \in 1..Len(hs_out) :
            LET t == hs_out[i].doc.text
            IN  /\ t \in TextsIn(hs_in.vector_results)
                         \cup TextsIn(hs_in.keyword_results)
                /\ \E cv \in OneContribution(hs_in.vector_results, t,
                                             hs_in.vector_weight),
                      ck \in OneContribution(hs_in.keyword_results, t,
                                             hs_in.keyword_weight) :
                       hs_out[i].score = cv + ck

\* the weighted raw score one list may give a text: nothing when the text is
\* absent, else weight times the score of an entry that carries the text
OneRawScore(list, text, weight) ==
    IF RanksOf(list, text) = {} THEN {Double(0)}
    ELSE { FloatMul(list[r].score, Double(weight)) :
               r \in RanksOf(list, text) }

\* C21 (as claimed): in weighted-sum mode the fused score of every returned
\* chunk identity is vector_weight times its vector similarity, if it is in
\* the vector list, plus keyword_weight times its BM25 score, if it is in
\* the keyword list.
C21_WeightedSum ==
    (hs_pc = "done" /\ ~hs_in.use_rrf) =>
        \A i \in 1..Len(hs_out) :
            LET t == hs_out[i].doc.text
            IN  \E cv \in OneRawScore(hs_in.vector_results, t,
                                       hs_in.vector_weight),
                   ck \in OneRawScore(hs_in.keyword_results, t,
                                       hs_in.keyword_weight) :
                    hs_out[i].score = FloatAdd(cv, ck)

\* C7: in both fusion modes the returned list holds no two entries with the
\* same chunk text.
C7_NoDuplicateText ==
    hs_pc = "done" =>
        \A i, j \in 1..Len(hs_out) :
            hs_out[i].doc.text = hs_out[j].doc.text => i = j

\* a call whose candidate lists hold both chunks that share the text "a",
\* one of them in each list, and whose answer carries that text
C7_Witness ==
    /\ hs_pc = "done"
    /\ ~hs_in.use_rrf
    /\ \E i \in 1..Len(hs_in.vector_results) :
           hs_in.vector_results[i].doc.id = 1
    /\ \E i \in 1..Len(hs_in.keyword_results) :
           hs_in.keyword_results[i].doc.id = 2
    /\ "a" \in TextsIn(hs_out)

\* C8 (as claimed): in RRF mode a chunk at rank 1 of both candidate lists
\* has the highest fused score and is returned first or tied-first.
C8_TopOfBothIsTop ==
    ( /\ hs_pc = "done"
      /\ hs_in.use_rrf
      /\ Len(hs_in.vector_results) > 0
      /\ Len(hs_in.keyword_results) > 0
      /\ hs_in.vector_results[1].doc = hs_in.keyword_results[1].doc ) =>
        \E i \in 1..Len(hs_out) :
            /\ hs_out[i].doc.text = hs_in.vector_results[1].doc.text
            /\ \A j \in 1..Len(hs_out) : hs_out[i].score >= hs_out[j].score

\* C9 (as claimed): with keyword_weight 0, a chunk that stands in the
\* keyword list and not in the vector list is not returned.
C9_KeywordOnlyExcluded ==
    (hs_pc = "done" /\ hs_in.keyword_weight = 0) =>
        \A t \in TextsIn(hs_in.keyword_results)
                 \ TextsIn(hs_in.vector_results) :
            t \notin TextsIn(hs_out)

\* C10: the returned list is ordered by non-increasing fused score and its
\* length is min(top_k, number of distinct chunk texts in the two lists),
\* hence at most top_k.
C10_SortedAndTruncated ==
    hs_pc = "done" =>
        /\ \A i \in 1..(Len(hs_out) - 1) :
               IF hs_in.use_rrf
               THEN hs_out[i].score >= hs_out[i+1].score
               ELSE FloatGE(hs_out[i].score, hs_out[i+1].score)
        /\ Len(hs_out) <= hs_in.top_k
        /\ Len(hs_out) =
               Min2(hs_in.top_k,
                    Cardinality(TextsIn(hs_in.vector_results)
                                \cup TextsIn(hs_in.keyword_results)))

\* a call where truncation cuts a distinct text off and the sort moved a
\* text other than the first one inserted to the front
C10_Witness ==
    /\ hs_pc = "done"
    /\ Cardinality(TextsIn(hs_in.vector_results)
                   \cup TextsIn(hs_in.keyword_results)) > hs_in.top_k
    /\ Len(hs_out) = hs_in.top_k
    /\ Len(hs_in.vector_results) > 0
    /\ hs_out[1].doc.text # hs_in.vector_results[1].doc.text

\* sum of the RRF contributions a list makes to a text, one for each rank
\* at which the text stands
RECURSIVE RRFSum(_, _, _, _)
RRFSum(list, text, weight, i) ==
    IF i > Len(list) THEN 0
    ELSE (IF list[i].doc.text = text THEN RRFScore(weight, i) ELSE 0)
         + RRFSum(list, text, weight, i + 1)

\* float sum, in list order, of the weighted raw scores a list gives a text
RECURSIVE RawSum(_, _, _, _, _)
RawSum(acc, list, text, weight, i) ==
    IF i > Len(list) THEN acc
    ELSE RawSum(IF list[i].doc.text = text
                THEN FloatAdd(acc, FloatMul(list[i].score, Double(weight)))
                ELSE acc,
                list, text, weight, i + 1)

\* the raw score at the last place a text stands in a list
LastRaw(list, text) ==
    list[CHOOSE i \in RanksOf(list, text) :
             \A j \in RanksOf(list, text) : j <= i].score

\* the score a text takes from the vector list alone, from the keyword list
\* alone
VectorAlone(in, text) ==
    IF in.use_rrf THEN RRFSum(in.vector_results, text, in.vector_weight, 1)
    ELSE FloatMul(LastRaw(in.vector_results, text), Double(in.vector_weight))

KeywordAlone(in, text) ==
    IF in.use_rrf THEN RRFSum(in.keyword_results, text, in.keyword_weight, 1)
    ELSE RawSum(Double(0), in.keyword_results, text, in.keyword_weight, 1)

\* the answer is made of the texts of one list, each once, as many as top_k
\* allows
MadeOf(out, list, top_k) ==
    /\ TextsIn(out) \subseteq TextsIn(list)
    /\ Len(out) = Min2(top_k, Cardinality(TextsIn(list)))
    /\ \A i, j \in 1..Len(out) : out[i].doc.text = out[j].doc.text => i = j

\* C11: a sub-search that raises makes HybridSearch.search raise, and no
\* fused list is returned; a sub-search that returns an empty list does not
\* make it fail, and the answer is made of the other list's chunks with the
\* scores that list alone gives them.
C11_FailurePropagatesEmptyFuses ==
    /\ hs_exc # "none" => (hs_pc = "raised" /\ hs_out = <<>>)
    /\ (hs_pc # "idle" /\ hs_exc = "none") => hs_pc = "done"
    /\ (hs_pc = "done" /\ hs_in.keyword_results = <<>>) =>
           /\ MadeOf(hs_out, hs_in.vector_results, hs_in.top_k)
           /\ \A i \in 1..Len(hs_out) :
                  hs_out[i].score = VectorAlone(hs_in, hs_out[i].doc.text)
    /\ (hs_pc = "done" /\ hs_in.vector_results = <<>>) =>
           /\ MadeOf(hs_out, hs_in.keyword_results, hs_in.top_k)
           /\ \A i \in 1..Len(hs_out) :
                  hs_out[i].score = KeywordAlone(hs_in, hs_out[i].doc.text)

\* the keyword sub-search raised after the vector sub-search had returned
\* results, and the call raised
C11_Witness ==
    /\ hs_pc = "raised"
    /\ hs_exc = "keyword"
    /\ hs_in.vector_results # <<>>

-----------------------------------------------------------------------------
(* Properties of the index state, checked under SpecConcurrent (a search    *)
(* beside a rebuild) and Spec (requests one at a time, over restarts)       *)

\* ndarray / faiss index size; None has no entries
Count(array) == IF array.none THEN 0 ELSE Len(array.vecs)

\* a (search structure, chunk sequence) pair that is one whole generation of
\* the index: a state some request left behind, or the complete build of
\* some chunk list
WholeGeneration(pair) ==
    \/ pair \in snapshots
    \/ \E chunks \in ChunkLists :
           pair = [index |-> Array(EmbedTexts(chunks)), documents |-> chunks]

\* C1 (as claimed): a search that runs beside a rebuild in another worker
\* sees the chunk sequence and the search structure of one generation,
\* the one before the rebuild or the one after it, never a mixture.
C1_SearchSeesOneGeneration ==
    (r_pc = "done" /\ ~r_ret.early) =>
        /\ Cardinality(r_reads) <= 1
        /\ \A documents \in r_reads :
               WholeGeneration([index |-> r_index, documents |-> documents])

\* C2 (as claimed): whenever no index operation is running, the search
\* structure holds as many vectors as there are chunks and as there are
\* stored embeddings.
C2_CountsAgree ==
    w_pc = "idle" =>
        /\ Count(vs_index) = Len(vs_documents)
        /\ Count(vs_doc_embeddings) = Len(vs_documents)

\* C3 (as claimed): a start-up that finds persisted artifacts whose vector
\* count differs from the persisted chunk count does not end as a
\* successful load, and no search is answered from the misaligned arrays.
C3_MismatchedLoadIsFatal ==
    ( /\ w_pc = "idle"
      /\ disk.index.exists /\ disk.meta.exists /\ disk.meta.readable
      /\ Len(disk.index.vecs) # Len(disk.meta.documents)
      /\ w_status = "loaded" ) =>
        /\ Count(vs_index) = Len(vs_documents)
        /\ ~(r_pc = "done" /\ ~r_ret.early /\ r_call.embed = "ok")

\* C12: VectorStore.search on an index that was never built, or that holds
\* no vector, returns the empty list, does not raise, and returns before
\* the embedding provider is called.
C12_EmptyIndexSearch ==
    (r_pc = "done" /\ Count(r_index) = 0) =>
        /\ r_ret.results = <<>>
        /\ ~r_ret.raised
        /\ r_ret.early

\* a search on a built index without vectors, beside a chunk list that is
\* not empty
C12_Witness ==
    /\ r_pc = "done"
    /\ ~r_index.none
    /\ Len(r_index.vecs) = 0
    /\ vs_documents # <<>>
    /\ r_ret.early

\* C13 (as claimed): once the Keyword Index holds zero chunks after a
\* completed request (the clear request rebuilds it from zero chunks), its
\* BM25 structure is absent and a KeywordSearch.search returns the empty
\* list without raising.
C13_ZeroChunksBM25Absent ==
    (w_pc = "idle" /\ w_status \in {"ok", "error"} /\ ks_documents = <<>>) =>
        /\ ks_bm25.none
        /\ k_pc = "done" => (~k_ret.raised /\ k_ret.results = <<>>)

\* C14: every result of KeywordSearch.search carries a score above zero,
\* and a query none of whose tokens stands in an indexed chunk gets the
\* empty list.
C14_KeywordScoresPositive ==
    k_pc = "done" =>
        /\ \A i \in 1..Len(k_ret.results) : k_ret.results[i].score > 0
        /\ Range(Tokenize(k_call.query)) \cap Vocabulary(ks_bm25.corpus) = {}
               => (k_ret.results = <<>> /\ ~k_ret.raised)

\* a search over three indexed chunks that returned some and left out one
\* that top_k had room for
C14_Witness ==
    /\ k_pc = "done"
    /\ Len(ks_bm25.corpus) = 3
    /\ k_call.top_k = KEYWORD_TOP_K
    /\ k_ret.results # <<>>
    /\ Len(k_ret.results) < 3

\* C18: once an ingest request has been answered 200, the chunk sequence of
\* the vector index and of the keyword index is exactly the chunks of that
\* request, the vectors and the BM25 corpus are those of the same chunks,
\* and a search returns chunks of that request only.
C18_IngestReplacesGeneration ==
    w_served.ok =>
        /\ vs_documents = w_served.chunks
        /\ ks_documents = w_served.chunks
        /\ vs_index = Array(EmbedTexts(w_served.chunks))
        /\ ks_bm25 = [none |-> FALSE, corpus |-> TokenizeAll(w_served.chunks)]
        /\ \A i \in 1..Len(r_ret.results) :
              r_ret.results[i].doc \in Range(w_served.chunks)
        /\ \A i \in 1..Len(k_ret.results) :
              k_ret.results[i].doc \in Range(w_served.chunks)

\* a vector search answered after an ingest that replaced an earlier
\* generation holding a chunk the new one lacks
C18_Witness ==
    /\ w_served.ok
    /\ r_pc = "done"
    /\ r_ret.results # <<>>
    /\ \E p \in snapshots :
          Range(p.documents) \ Range(w_served.chunks) # {}

\* C19: when load has read what one save call wrote, search on the loaded
\* index returns, for every query and top_k, the chunks the saved index
\* returned, in the same order (and with the same scores)
C19_SaveLoadRoundTrip ==
    (w_op = "boot" /\ w_pc = "ks_docs" /\ saved.load.ok) =>
        \A query \in QueryTexts, top_k \in 1..VECTOR_TOP_K,
           embed \in EmbedOutcomes :
            VectorSearch(vs_index, vs_documents, query, top_k, embed)
              = VectorSearch(saved.load.index, saved.load.documents, query,
                             top_k, embed)

\* a load of a saved index of several chunks, on which a search returns
\* fewer chunks than are indexed
C19_Witness ==
    /\ w_op = "boot" /\ w_pc = "ks_docs" /\ saved.load.ok
    /\ Len(saved.load.documents) > 1
    /\ \E query \in QueryTexts :
          Len(VectorSearch(vs_index, vs_documents, query, 1, "ok").results)
              = 1

\* C23 (as claimed): on an index of n >= 1 vectors with its n chunks,
\* VectorStore.search, given the query's embedding by the provider, returns
\* min(top_k, n) results, no chunk twice, by non-decreasing distance
\* (similarity 1/(1+d) non-increasing).
C23_MinTopKDistinct ==
    (r_pc = "done" /\ r_call.embed = "ok"
                   /\ Count(r_index) >= 1
                   /\ Len(r_docs) = Count(r_index)) =>
        LET res == r_ret.results
        IN  /\ ~r_ret.raised
            /\ Len(res) = Min2(r_call.top_k, Count(r_index))
            /\ \A i, j \in 1..Len(res) : res[i].doc = res[j].doc => i = j
            /\ \A i, j \in 1..Len(res) : i < j =>
                  res[i].similarity.den <= res[j].similarity.den

\* C25 (as claimed): an index operation that ended in an error (an ingest
\* or clear request whose build_index raised, a start-up whose load or
\* keyword build raised) has left every field of both indexes as it was
\* when the operation started.
C25_FailedOperationChangesNothing ==
    (w_pc = "idle" /\ w_status \in {"error", "load_failed"}) =>
        StoreState = w_before

\* C26: whenever no index operation is running (after start-up, and after
\* every ingest or clear request, completed or failed), the Vector Index and
\* the Keyword Index hold the same sequence of chunks.
C26_SameChunkSequence ==
    w_pc = "idle" => vs_documents = ks_documents

\* a request has failed on a system that holds chunks (a clear request
\* leaves none, so the failed request was an ingest)
C26_Witness ==
    /\ w_pc = "idle"
    /\ w_status = "error"
    /\ vs_documents # <<>>
    /\ ks_documents # <<>>

-----------------------------------------------------------------------------
(* Properties of KeywordSearch.search, checked under SpecKeyword            *)

\* the position of a chunk in the keyword index
PositionOf(doc) == CHOOSE p \in 1..Len(ks_documents) : ks_documents[p] = doc

\* C22 (as claimed): KeywordSearch.search returns the top_k highest-scoring
\* entries with a positive score, by non-increasing score, and of two
\* entries with the same score the one at the lower index position first.
C22_TiesInIndexOrder ==
    k_pc = "done" =>
        LET scores == GetScores(ks_bm25.corpus, Tokenize(k_call.query))
            positive == { p \in 1..Len(scores) : scores[p] > 0 }
            res == k_ret.results
        IN  /\ ~k_ret.raised
            /\ Len(res) = Min2(k_call.top_k, Cardinality(positive))
            /\ \A i \in 1..Len(res) :
                  /\ PositionOf(res[i].doc) \in positive
                  /\ res[i].score = scores[PositionOf(res[i].doc)]
            /\ \A i, j \in 1..Len(res) : i < j =>
                  /\ res[i].score >= res[j].score
                  /\ res[i].score = res[j].score =>
                         PositionOf(res[i].doc) < PositionOf(res[j].doc)
            /\ \A p \in positive :
                  (\A i \in 1..Len(res) : PositionOf(res[i].doc) # p) =>
                      \A i \in 1..Len(res) : res[i].score >= scores[p]

====
